---------------------------- MODULE Spec2Model ----------------------------
(***************************************************************************)
(* Position reconciliation of tradedesk: the pure classifier `reconcile`,  *)
(* the on-disk PositionJournal and the ReconciliationManager that drives   *)
(* both at startup and periodically.                                       *)
(*                                                                         *)
(* Python values.  An Optional value is a sequence: None is <<>> and a     *)
(* present value x is <<x>>.  Sizes and prices are integers counting       *)
(* millionths (1000000 stands for 1.0), so the size tolerance 1e-6 is 1.   *)
(* ReconciliationEntry.message, BrokerPosition.deal_id, currency and       *)
(* created_at have no effect on any state and are left out.  Of the log    *)
(* calls, those of a reconciliation pass that name an instrument at level  *)
(* WARNING or above are recorded in the pass; the others are left out.     *)
(***************************************************************************)
EXTENDS Integers, Sequences, FiniteSets, TLC

VARIABLES
    \* --- reconcile() as a pure function (SpecReconcile) ---
    arg_journal_positions,   \* dict[str, JournalEntry]: a function on its keys
    arg_broker_positions,    \* list[BrokerPosition]
    arg_managed_instruments, \* set[str]
    ret_result,              \* ReconciliationResult.entries
    returned,                \* TRUE once reconcile has returned
    \* --- the journal directory on disk ---
    fs,                      \* [dir, path, tmp]: directory, positions.json, .positions.json.tmp
    \* --- PositionJournal calls (SpecJournal) ---
    save_pc,                 \* position inside save: "idle", "write", "rename"
    save_entries,            \* argument of the save in progress or last started
    save_prev,               \* positions.json as it was when that save started
    loaded,                  \* TRUE when load() ran after the last other call
    load_result,             \* what that load() returned
    last_call,               \* the last call that ended: "save", "crash", "clear"
    \* --- ReconciliationManager and its strategies (Spec) ---
    journal,                 \* the manager's PositionJournal, or None
    strategies,              \* runner.strategies: instrument -> [position, entry_atr]
    recently_changed_instruments,
    pc,                      \* where the manager's task is
    pass,                    \* the reconciliation pass in progress, or the one
                             \* that ended with no other operation since
    trail,                   \* history of the periodic passes (SpecPasses)
    \* --- the manager's periodic gate (SpecGate) ---
    _enable_event_subscription,
    _reconcile_interval,
    _candle_count,
    gate,                    \* what the gate has been asked and has answered
    \* --- risk allocation policies as pure functions (SpecPolicy) ---
    policy,                  \* the RiskAllocationPolicy object
    arg_active_instruments,  \* list[Instrument]
    ret_allocation,          \* Mapping[Instrument, float]: a function on its keys
    allocated,               \* TRUE once allocate has returned
    \* --- PortfolioRunner (SpecRunner), with strategies and policy ---
    default_risk_per_trade,
    tasks,                   \* the on_candle_close calls: [instrument, at, trace]
    \* --- WeightedRollingTracker (SpecTracker, SpecDecay) ---
    decay_weights,           \* (recent, middle, old)
    _windows,                \* instrument -> the trades of its window, oldest first
    _trade_count,
    _cached_metrics,         \* None, or instrument -> metrics
    history,                 \* instrument -> every trade ingested for it, in order
    since_computation,       \* trades ingested since the metrics were last computed
    last_computed,           \* None, or the instruments of the metrics last computed
    call,                    \* the last call of the tracker or of its policy
    arg_trades,              \* _apply_decay_weights as a pure function: its argument,
    ret_weighted_pnls,       \* and None or what it returned
    \* --- a PositionTracker on its own (SpecPosition) ---
    position_tracker,        \* the tracker's fields
    position_call            \* the last method called on it and its candle

reconcileVars == <<arg_journal_positions, arg_broker_positions,
                   arg_managed_instruments, ret_result, returned>>

journalVars == <<save_pc, save_entries, save_prev, loaded, load_result, last_call>>

managerVars == <<journal, strategies, recently_changed_instruments, pc, pass, trail>>

gateVars == <<_enable_event_subscription, _reconcile_interval, _candle_count, gate>>

\* The state of the portfolio layer: gate, runner, policies, tracker
policyVars == <<policy, arg_active_instruments, ret_allocation, allocated>>

runnerVars == <<default_risk_per_trade, tasks>>

trackerVars == <<decay_weights, _windows, _trade_count, _cached_metrics, history,
                 since_computation, last_computed, call, arg_trades, ret_weighted_pnls>>

portfolioVars == <<gateVars, policyVars, runnerVars, trackerVars>>

positionVars == <<position_tracker, position_call>>

vars == <<reconcileVars, fs, journalVars, managerVars, portfolioVars, positionVars>>

\* What the PositionJournal actions leave alone
notJournal == <<reconcileVars, managerVars, portfolioVars, positionVars>>

\* What the manager's actions leave alone: the other specifications' state
\* and the journal the manager was built with
notManager == <<reconcileVars, journalVars, journal, portfolioVars, positionVars>>

-----------------------------------------------------------------------------
(* Optional values *)

None == <<>>
Some(x) == <<x>>
Val(o) == o[1]

\* The portfolio layer is not in use
GateIdle ==
    /\ _enable_event_subscription = FALSE /\ _reconcile_interval = 0
    /\ _candle_count = 0 /\ gate = <<>>

PolicyIdle ==
    /\ policy = <<>> /\ arg_active_instruments = <<>>
    /\ ret_allocation = <<>> /\ allocated = FALSE

RunnerIdle == default_risk_per_trade = <<>> /\ tasks = <<>>

TrackerIdle ==
    /\ decay_weights = <<>> /\ _windows = <<>> /\ _trade_count = 0
    /\ _cached_metrics = <<>> /\ history = <<>> /\ since_computation = 0
    /\ last_computed = <<>>
    /\ call = <<>> /\ arg_trades = <<>> /\ ret_weighted_pnls = <<>>

PortfolioIdle == GateIdle /\ PolicyIdle /\ RunnerIdle /\ TrackerIdle

\* No PositionTracker is under test
PositionIdle == position_tracker = <<>> /\ position_call = <<>>

Abs(x) == IF x < 0 THEN -x ELSE x

\* Python's `x or 0` for an Optional number: None and 0 are both falsy.
OrZero(o) == IF o = None THEN 0 ELSE Val(o)

\* Sequences over S of length at most n
RECURSIVE SeqsUpTo(_, _)
SeqsUpTo(S, n) ==
    IF n = 0 THEN {<<>>}
    ELSE LET shorter == SeqsUpTo(S, n - 1)
         IN  shorter \cup {Append(s, x) : s \in {t \in shorter : Len(t) = n - 1}, x \in S}

-----------------------------------------------------------------------------
(* Value domains of the model *)

\* Instruments with a strategy, and one instrument traded outside the portfolio.
Instruments == {"A", "B"}
Foreign == "X"

\* Ascending (lexicographic) order of the instrument names, used for sorted().
InstrumentOrder == <<"A", "B", "X">>

\* 1.0, 1.000001 (within tolerance of 1.0) and 1.5
Sizes == {1000000, 1000001, 1500000}

MinSize == 1000000

BrokerDirections == {"BUY", "SELL"}

\* abs(journal size - broker size) > 1e-6, in millionths
SizeTolerance == 1

\* Longest broker position list of the pure-function specification.
MaxBrokerPositions == 2

\* Longest entry list handed to PositionJournal.save in SpecJournal.
MaxEntries == 2

-----------------------------------------------------------------------------
(* recording/journal.py: JournalEntry; execution/broker.py: BrokerPosition *)

JournalEntry(instrument, direction, size, entry_price, bars_held, mfe_points, entry_atr) ==
    [instrument |-> instrument, direction |-> direction, size |-> size,
     entry_price |-> entry_price, bars_held |-> bars_held,
     mfe_points |-> mfe_points, entry_atr |-> entry_atr, updated_at |-> ""]

BrokerPosition(instrument, direction, size, entry_price) ==
    [instrument |-> instrument, direction |-> direction, size |-> size,
     entry_price |-> entry_price]

-----------------------------------------------------------------------------
(* portfolio/reconciliation.py: reconcile *)

ReconciliationEntry(instrument, discrepancy, jd, js, bd, bs) ==
    [instrument |-> instrument, discrepancy |-> discrepancy,
     journal_direction |-> jd, journal_size |-> js,
     broker_direction |-> bd, broker_size |-> bs]

\* mapping = {"long": "BUY", "short": "SELL"}; mapping.get(journal_dir, "")
DirectionMapping(journal_dir) ==
    CASE journal_dir = "long" -> "BUY"
      [] journal_dir = "short" -> "SELL"
      [] OTHER -> ""

_direction_matches_swapped(journal_dir, broker_dir) ==
    IF journal_dir = None THEN FALSE
    ELSE DirectionMapping(Val(journal_dir)) # broker_dir

_direction_matches(journal_dir, broker_dir) ==
    IF journal_dir = None THEN FALSE
    ELSE DirectionMapping(Val(journal_dir)) = broker_dir

IndexBroker_unfiltered(broker_positions, managed_instruments) ==
    [i \in {broker_positions[k].instrument : k \in 1..Len(broker_positions)} |->
        LET ks == {k \in 1..Len(broker_positions) : broker_positions[k].instrument = i}
        IN  broker_positions[CHOOSE k \in ks : \A m \in ks : m <= k]]

\* broker_by_instrument: the last listed position of each managed instrument.
RECURSIVE IndexBroker(_, _)
IndexBroker(broker_positions, managed_instruments) ==
    IF broker_positions = <<>> THEN <<>>
    ELSE LET n == Len(broker_positions)
             bp == broker_positions[n]
             rest == IndexBroker(SubSeq(broker_positions, 1, n - 1), managed_instruments)
         IN  IF bp.instrument \in managed_instruments
             THEN (bp.instrument :> bp) @@ rest
             ELSE rest

Sorted_descending(S) ==
    LET up == SelectSeq(InstrumentOrder, LAMBDA i : i \in S)
    IN  [k \in 1..Len(up) |-> up[Len(up) + 1 - k]]

\* sorted(all_instruments)
Sorted(S) == SelectSeq(InstrumentOrder, LAMBDA i : i \in S)

size_differs_strict(journal_size, broker_size) ==
    Abs(OrZero(journal_size) - broker_size) >= SizeTolerance

\* abs((journal_entry.size or 0) - broker_pos.size) > 1e-6
size_differs(journal_size, broker_size) ==
    Abs(OrZero(journal_size) - broker_size) > SizeTolerance

exit_was_recorded_any(journal_positions, instrument) ==
    instrument \notin DOMAIN journal_positions
    \/ journal_positions[instrument].direction = None

\* journal_entry is not None and journal_entry.direction is None
exit_was_recorded(journal_positions, instrument) ==
    /\ instrument \in DOMAIN journal_positions
    /\ journal_positions[instrument].direction = None

has_position_if_entry(journal_positions, instrument) ==
    instrument \in DOMAIN journal_positions

\* journal_entry is not None and journal_entry.direction is not None
has_position(journal_positions, instrument) ==
    /\ instrument \in DOMAIN journal_positions
    /\ journal_positions[instrument].direction # None

\* The body of reconcile's loop: the entry appended for one instrument.
classify(journal_positions, broker_by_instrument, instrument) ==
    LET journal_has_position == has_position(journal_positions, instrument)
        broker_has_position == instrument \in DOMAIN broker_by_instrument
        je == journal_positions[instrument]
        bp == broker_by_instrument[instrument]
    IN  IF ~journal_has_position /\ ~broker_has_position THEN
            ReconciliationEntry(instrument, "matched", None, None, None, None)
        ELSE IF journal_has_position /\ broker_has_position THEN
            IF ~_direction_matches(je.direction, bp.direction) THEN
                ReconciliationEntry(instrument, "direction_mismatch",
                    je.direction, je.size, Some(bp.direction), Some(bp.size))
            ELSE IF size_differs(je.size, bp.size) THEN
                ReconciliationEntry(instrument, "size_mismatch",
                    je.direction, je.size, Some(bp.direction), Some(bp.size))
            ELSE
                ReconciliationEntry(instrument, "matched",
                    je.direction, je.size, Some(bp.direction), Some(bp.size))
        ELSE IF ~journal_has_position /\ broker_has_position THEN
            IF exit_was_recorded(journal_positions, instrument) THEN
                ReconciliationEntry(instrument, "failed_exit",
                    None, None, Some(bp.direction), Some(bp.size))
            ELSE
                ReconciliationEntry(instrument, "orphan_broker",
                    None, None, Some(bp.direction), Some(bp.size))
        ELSE
            ReconciliationEntry(instrument, "phantom_local",
                je.direction, je.size, None, None)

reconcile(journal_positions, broker_positions, managed_instruments) ==
    LET broker_by_instrument == IndexBroker(broker_positions, managed_instruments)
        all_instruments == managed_instruments \cup DOMAIN broker_by_instrument
        order == Sorted(all_instruments)
    IN  [k \in 1..Len(order) |->
            classify(journal_positions, broker_by_instrument, order[k])]

is_clean_without_phantoms(entries) ==
    \A k \in 1..Len(entries) : entries[k].discrepancy \in {"matched", "phantom_local"}

\* ReconciliationResult.is_clean
is_clean(entries) ==
    \A k \in 1..Len(entries) : entries[k].discrepancy = "matched"


-----------------------------------------------------------------------------
(* recording/journal.py: the JSON text of positions.json                   *)
(*                                                                         *)
(* A text is a sequence of tokens; a file cut short by a crash holds a     *)
(* proper prefix of the text being written.                                *)

Tok(t, s, n) == [t |-> t, s |-> s, n |-> n]
LBrace == Tok("{", "", 0)
RBrace == Tok("}", "", 0)
LBracket == Tok("[", "", 0)
RBracket == Tok("]", "", 0)
NullTok == Tok("null", "", 0)
KeyTok(k) == Tok("key", k, 0)
StrTok(x) == Tok("str", x, 0)
NumTok(x) == Tok("num", "", x)

\* json.dumps of an Optional str / Optional number
DumpStr(o) == IF o = None THEN NullTok ELSE StrTok(Val(o))
DumpNum(o) == IF o = None THEN NullTok ELSE NumTok(Val(o))

\* json.dumps(asdict(e)): the fields in declaration order
DumpEntry(e) ==
    <<LBrace,
      KeyTok("instrument"), StrTok(e.instrument),
      KeyTok("direction"), DumpStr(e.direction),
      KeyTok("size"), DumpNum(e.size),
      KeyTok("entry_price"), DumpNum(e.entry_price),
      KeyTok("bars_held"), NumTok(e.bars_held),
      KeyTok("mfe_points"), NumTok(e.mfe_points),
      KeyTok("entry_atr"), NumTok(e.entry_atr),
      KeyTok("updated_at"), StrTok(e.updated_at),
      RBrace>>

RECURSIVE DumpEntries(_)
DumpEntries(entries) ==
    IF entries = <<>> THEN <<>>
    ELSE DumpEntry(Head(entries)) \o DumpEntries(Tail(entries))

\* json.dumps({"version": 1, "created_at": ..., "positions": [...]})
json_dumps(entries) ==
    <<LBrace, KeyTok("version"), NumTok(1), KeyTok("created_at"), StrTok("now"),
      KeyTok("positions"), LBracket>>
    \o DumpEntries(entries) \o <<RBracket, RBrace>>

IsScalar(tok) == tok.t \in {"str", "num", "null"}

Parsed(ok, next, val) == [ok |-> ok, next |-> next, val |-> val]

\* The members of an object of scalars, from position p to its closing brace.
RECURSIVE ParseMembers(_, _, _)
ParseMembers(text, p, dict) ==
    IF p > Len(text) THEN Parsed(FALSE, p, <<>>)
    ELSE IF text[p].t = "}" THEN Parsed(TRUE, p + 1, dict)
    ELSE IF text[p].t = "key" /\ p + 1 <= Len(text) /\ IsScalar(text[p + 1])
         THEN ParseMembers(text, p + 2, (text[p].s :> text[p + 1]) @@ dict)
    ELSE Parsed(FALSE, p, <<>>)

\* The elements of an array of objects, from position p to its closing bracket.
RECURSIVE ParseObjects(_, _, _)
ParseObjects(text, p, list) ==
    IF p > Len(text) THEN Parsed(FALSE, p, <<>>)
    ELSE IF text[p].t = "]" THEN Parsed(TRUE, p + 1, list)
    ELSE IF text[p].t = "{"
         THEN LET m == ParseMembers(text, p + 1, <<>>)
              IN  IF m.ok THEN ParseObjects(text, m.next, Append(list, m.val))
                  ELSE Parsed(FALSE, p, <<>>)
    ELSE Parsed(FALSE, p, <<>>)

\* The members of the document, keeping the value of "positions" (Optional).
RECURSIVE ParseDocument(_, _, _)
ParseDocument(text, p, positions) ==
    IF p > Len(text) THEN Parsed(FALSE, p, None)
    ELSE IF text[p].t = "}"
         THEN Parsed(p = Len(text), p + 1, positions)
    ELSE IF text[p].t = "key" /\ p + 1 <= Len(text) /\ IsScalar(text[p + 1])
         THEN IF text[p].s = "positions" THEN Parsed(FALSE, p, None)
              ELSE ParseDocument(text, p + 2, positions)
    ELSE IF text[p].t = "key" /\ p + 1 <= Len(text) /\ text[p + 1].t = "["
         THEN LET a == ParseObjects(text, p + 2, <<>>)
              IN  IF ~a.ok THEN Parsed(FALSE, p, None)
                  ELSE ParseDocument(text, a.next,
                           IF text[p].s = "positions" THEN Some(a.val) ELSE positions)
    ELSE Parsed(FALSE, p, None)

\* json.loads(text) then data.get("positions", []); ok is FALSE when either
\* raises (text that is no JSON object, or "positions" that is no array).
json_loads(text) ==
    IF Len(text) >= 1 /\ text[1].t = "{"
    THEN LET d == ParseDocument(text, 2, None)
         IN  Parsed(d.ok, d.next, IF d.ok /\ d.val # None THEN Val(d.val) ELSE <<>>)
    ELSE Parsed(FALSE, 1, <<>>)

JournalEntryFields ==
    {"instrument", "direction", "size", "entry_price", "bars_held",
     "mfe_points", "entry_atr", "updated_at"}

\* Backward compat: rename legacy "epic" key to "instrument"
RenameLegacy(e) ==
    IF "epic" \in DOMAIN e /\ "instrument" \notin DOMAIN e
    THEN [k \in (DOMAIN e \ {"epic"}) \cup {"instrument"} |->
             IF k = "instrument" THEN e["epic"] ELSE e[k]]
    ELSE e

LoadStr(tok) == IF tok.t = "null" THEN None ELSE Some(tok.s)
LoadNum(tok) == IF tok.t = "null" THEN None ELSE Some(tok.n)

FromDict_size_as_price(e) ==
    [instrument |-> e["instrument"].s, direction |-> LoadStr(e["direction"]),
     size |-> LoadNum(e["entry_price"]), entry_price |-> LoadNum(e["size"]),
     bars_held |-> e["bars_held"].n, mfe_points |-> e["mfe_points"].n,
     entry_atr |-> e["entry_atr"].n, updated_at |-> e["updated_at"].s]

\* JournalEntry(**e) for a dict with exactly the fields of JournalEntry
FromDict(e) ==
    [instrument |-> e["instrument"].s, direction |-> LoadStr(e["direction"]),
     size |-> LoadNum(e["size"]), entry_price |-> LoadNum(e["entry_price"]),
     bars_held |-> e["bars_held"].n, mfe_points |-> e["mfe_points"].n,
     entry_atr |-> e["entry_atr"].n, updated_at |-> e["updated_at"].s]

File(exists, text) == [exists |-> exists, text |-> text]
NoFile == File(FALSE, <<>>)

LoadResult(outcome, entries) == [outcome |-> outcome, entries |-> entries]

\* The body of load's try block; raised is TRUE when it raises.
LoadTry(text) ==
    LET data == json_loads(text)
        dicts == [k \in 1..Len(data.val) |-> RenameLegacy(data.val[k])]
    IN  IF ~data.ok \/ \E k \in 1..Len(dicts) : DOMAIN dicts[k] # JournalEntryFields
        THEN [raised |-> TRUE, entries |-> <<>>]
        ELSE [raised |-> FALSE, entries |-> [k \in 1..Len(dicts) |-> FromDict(dicts[k])]]

load_unguarded(disk) ==
    IF ~disk.path.exists THEN LoadResult("none", <<>>)
    ELSE LET r == LoadTry(disk.path.text)
         IN  IF r.raised THEN LoadResult("raise", <<>>) ELSE LoadResult("list", r.entries)

\* PositionJournal.load: "none", or "list" with the entries
load(disk) ==
    IF ~disk.path.exists THEN LoadResult("none", <<>>)
    ELSE LET r == LoadTry(disk.path.text)
         IN  IF r.raised THEN LoadResult("none", <<>>) ELSE LoadResult("list", r.entries)

\* PositionJournal.save run to its end
save(disk, entries) ==
    [dir |-> TRUE, path |-> File(TRUE, json_dumps(entries)), tmp |-> NoFile]

-----------------------------------------------------------------------------
(* SpecJournal: save, load and clear on one journal directory, with the    *)
(* process able to die at any point of save.                               *)

FlatEntry(i) == JournalEntry(i, None, None, None, 0, 0, 0)

\* Entries with a different value in every field
SavedEntries ==
    {FlatEntry("A"),
     JournalEntry("A", Some("long"), Some(1500000), Some(100000000), 3, 2500000, 7000000),
     JournalEntry("B", Some("short"), Some(1000000), Some(95000000), 0, 0, 1000000)}

\* Files found on disk that this process did not write
GarbageText == <<Tok("bad", "not json", 0), LBrace, LBrace, LBrace>>
EmptyObjectText == <<LBrace, RBrace>>
LegacyText ==
    <<LBrace, KeyTok("positions"), LBracket, LBrace,
      KeyTok("epic"), StrTok("A"), KeyTok("direction"), StrTok("long"),
      KeyTok("size"), NumTok(1000000), KeyTok("entry_price"), NumTok(100000000),
      KeyTok("bars_held"), NumTok(1), KeyTok("mfe_points"), NumTok(0),
      KeyTok("entry_atr"), NumTok(0), KeyTok("updated_at"), StrTok(""),
      RBrace, RBracket, RBrace>>
UnknownFieldText ==
    <<LBrace, KeyTok("positions"), LBracket, LBrace,
      KeyTok("instrument"), StrTok("A"), KeyTok("stop"), NumTok(1),
      RBrace, RBracket, RBrace>>
NotAnObjectText == <<LBracket, RBracket>>

UnparseableTexts == {GarbageText, UnknownFieldText, NotAnObjectText}

JournalInit ==
    /\ fs \in {[dir |-> FALSE, path |-> NoFile, tmp |-> NoFile]} \cup
              {[dir |-> TRUE, path |-> f, tmp |-> NoFile] :
                  f \in {NoFile} \cup {File(TRUE, t) :
                      t \in UnparseableTexts \cup {EmptyObjectText, LegacyText}}}
    /\ save_pc = "idle"
    /\ save_entries = <<>>
    /\ save_prev = NoFile
    /\ loaded = FALSE
    /\ load_result = LoadResult("none", <<>>)
    /\ last_call = "none"
    /\ arg_journal_positions = <<>> /\ arg_broker_positions = <<>>
    /\ arg_managed_instruments = {} /\ ret_result = <<>> /\ returned = FALSE
    /\ journal = <<>> /\ strategies = <<>> /\ recently_changed_instruments = {}
    /\ pc = "none" /\ pass = <<>> /\ trail = <<>>
    /\ PortfolioIdle /\ PositionIdle

JournalIdle ==
    /\ save_pc = "idle" /\ save_entries = <<>> /\ save_prev = NoFile
    /\ loaded = FALSE /\ load_result = LoadResult("none", <<>>)
    /\ last_call = "none"

\* No load has run since the call that just ended.
NotLoaded ==
    /\ loaded' = FALSE
    /\ load_result' = LoadResult("none", <<>>)

\* save: mkdir, build the text, open the temp file for writing
SaveBegin(entries) ==
    /\ save_pc = "idle"
    /\ save_pc' = "write"
    /\ save_entries' = entries
    /\ save_prev' = fs.path
    /\ fs' = [fs EXCEPT !.dir = TRUE, !.tmp = File(TRUE, <<>>)]
    /\ NotLoaded
    /\ UNCHANGED <<last_call, notJournal>>

\* Where a write may be cut short: after the first token, in the middle and
\* before the last token of the text.
CutPoints(text) == {1, Len(text) \div 2, Len(text) - 1}

WriteTmp_in_place(k) ==
    /\ save_pc = "write"
    /\ k = Len(json_dumps(save_entries)) \/ (fs.path = save_prev /\ k \in CutPoints(json_dumps(save_entries)))
    /\ fs' = [fs EXCEPT !.path = File(TRUE, SubSeq(json_dumps(save_entries), 1, k))]
    /\ save_pc' = IF k = Len(json_dumps(save_entries)) THEN "rename" ELSE "write"
    /\ UNCHANGED <<save_entries, save_prev, loaded, load_result, last_call, notJournal>>

\* self._tmp_path.write_text(...): the temp file holds the first k tokens,
\* all of them when the write has ended
WriteTmp(k) ==
    /\ save_pc = "write"
    /\ \/ k = Len(json_dumps(save_entries))
       \/ fs.tmp.text = <<>> /\ k \in CutPoints(json_dumps(save_entries))
    /\ fs' = [fs EXCEPT !.tmp = File(TRUE, SubSeq(json_dumps(save_entries), 1, k))]
    /\ save_pc' = IF k = Len(json_dumps(save_entries)) THEN "rename" ELSE "write"
    /\ UNCHANGED <<save_entries, save_prev, loaded, load_result, last_call, notJournal>>

Rename_as_copy ==
    /\ save_pc = "rename"
    /\ fs' = [fs EXCEPT !.path = fs.tmp]
    /\ save_pc' = "idle"
    /\ last_call' = "save"
    /\ UNCHANGED <<save_entries, save_prev, loaded, load_result, notJournal>>

\* self._tmp_path.rename(self._path)
Rename ==
    /\ save_pc = "rename"
    /\ fs' = [fs EXCEPT !.path = fs.tmp, !.tmp = NoFile]
    /\ save_pc' = "idle"
    /\ last_call' = "save"
    /\ UNCHANGED <<save_entries, save_prev, loaded, load_result, notJournal>>

\* The process dies inside save; the files stay as they are.
Crash ==
    /\ save_pc # "idle"
    /\ save_pc' = "idle"
    /\ last_call' = "crash"
    /\ UNCHANGED <<fs, save_entries, save_prev, loaded, load_result, notJournal>>

\* load() by the process itself or by the one started after a crash
Load ==
    /\ save_pc = "idle"
    /\ ~loaded
    /\ loaded' = TRUE
    /\ load_result' = load(fs)
    /\ UNCHANGED <<fs, save_pc, save_entries, save_prev, last_call, notJournal>>

\* PositionJournal.clear
Clear ==
    /\ save_pc = "idle"
    /\ fs.path.exists
    /\ fs' = [fs EXCEPT !.path = NoFile]
    /\ last_call' = "clear"
    /\ save_entries' = <<>>
    /\ save_prev' = NoFile
    /\ NotLoaded
    /\ UNCHANGED <<save_pc, notJournal>>

JournalNext ==
    \/ \E entries \in SeqsUpTo(SavedEntries, MaxEntries) : SaveBegin(entries)
    \/ \E k \in 1..(9 + 18 * MaxEntries) : WriteTmp(k)
    \/ Rename
    \/ Crash
    \/ Load
    \/ Clear

-----------------------------------------------------------------------------
(* SpecReconcile: reconcile applied to bounded inputs *)

\* Journal entries as reconcile reads them: instrument, direction and size.
ReconcileJournalEntries(i) ==
    {JournalEntry(i, None, None, None, 0, 0, 0)} \cup
    {JournalEntry(i, Some(d), Some(s), Some(MinSize), 0, 0, 0) :
        d \in {"long", "short"}, s \in Sizes}

ReconcileJournals ==
    UNION {[K -> UNION {ReconcileJournalEntries(i) : i \in K}] : K \in SUBSET Instruments}

WellKeyed(journal_positions) ==
    \A i \in DOMAIN journal_positions : journal_positions[i].instrument = i

ReconcileBrokerPositions ==
    {BrokerPosition(i, d, s, MinSize) : i \in Instruments, d \in BrokerDirections, s \in Sizes}
    \cup {BrokerPosition(Foreign, "BUY", MinSize, MinSize)}

ReconcileInit ==
    /\ arg_journal_positions \in {j \in ReconcileJournals : WellKeyed(j)}
    /\ arg_broker_positions \in SeqsUpTo(ReconcileBrokerPositions, MaxBrokerPositions)
    /\ arg_managed_instruments \in {{"A"}, {"A", "B"}}
    /\ ret_result = <<>>
    /\ returned = FALSE
    /\ fs = [dir |-> FALSE, path |-> NoFile, tmp |-> NoFile]
    /\ JournalIdle
    /\ journal = <<>> /\ strategies = <<>> /\ recently_changed_instruments = {}
    /\ pc = "none" /\ pass = <<>> /\ trail = <<>>
    /\ PortfolioIdle /\ PositionIdle

ReconcileCall ==
    /\ ~returned
    /\ ret_result' = reconcile(arg_journal_positions, arg_broker_positions,
                               arg_managed_instruments)
    /\ returned' = TRUE
    /\ UNCHANGED <<arg_journal_positions, arg_broker_positions, arg_managed_instruments>>
    /\ UNCHANGED <<fs, journalVars, managerVars, portfolioVars, positionVars>>

SpecReconcile == ReconcileInit /\ [][ReconcileCall]_vars

\* The broker position reconcile compares for instrument i: the last one listed.
HasBroker(i) ==
    \E k \in 1..Len(arg_broker_positions) : arg_broker_positions[k].instrument = i

LastBroker(i) ==
    LET ks == {k \in 1..Len(arg_broker_positions) : arg_broker_positions[k].instrument = i}
    IN  arg_broker_positions[CHOOSE k \in ks : \A m \in ks : m <= k]

JournalOpen(i) ==
    i \in DOMAIN arg_journal_positions /\ arg_journal_positions[i].direction # None

\* The discrepancies reported for instrument i
Discrepancies(i) ==
    {ret_result[k].discrepancy : k \in {m \in 1..Len(ret_result) : ret_result[m].instrument = i}}

DirectionMaps(i) ==
    LET jd == Val(arg_journal_positions[i].direction)
        bd == LastBroker(i).direction
    IN  (jd = "long" /\ bd = "BUY") \/ (jd = "short" /\ bd = "SELL")

SizesClose(i) ==
    Abs(Val(arg_journal_positions[i].size) - LastBroker(i).size) <= SizeTolerance

\* C9: when journal and broker both hold a position for a managed instrument,
\* the result is MATCHED exactly when the direction maps (long/BUY, short/SELL)
\* and the sizes differ by at most the tolerance, DIRECTION_MISMATCH whenever
\* the direction does not map, and SIZE_MISMATCH exactly when the direction
\* maps and the sizes differ by more than the tolerance.
C9_BothHoldClassification ==
    returned =>
        \A i \in arg_managed_instruments :
            (JournalOpen(i) /\ HasBroker(i)) =>
                /\ Discrepancies(i) =
                      {IF ~DirectionMaps(i) THEN "direction_mismatch"
                       ELSE IF SizesClose(i) THEN "matched" ELSE "size_mismatch"}

C9_Witness ==
    /\ returned
    /\ \E i \in arg_managed_instruments :
          /\ JournalOpen(i) /\ HasBroker(i)
          /\ DirectionMaps(i)
          /\ Val(arg_journal_positions[i].size) # LastBroker(i).size
          /\ Discrepancies(i) = {"matched"}
    /\ \E i \in arg_managed_instruments :
          /\ JournalOpen(i) /\ HasBroker(i)
          /\ ~DirectionMaps(i)
          /\ Val(arg_journal_positions[i].size) = LastBroker(i).size
          /\ Discrepancies(i) = {"direction_mismatch"}

\* C10: for a managed instrument with a broker position and no open journal
\* position, the result is FAILED_EXIT when a journal entry with null
\* direction exists and ORPHAN_BROKER when the journal has no entry for it.
C10_FailedExitVersusOrphan ==
    returned =>
        \A i \in arg_managed_instruments :
            (HasBroker(i) /\ ~JournalOpen(i)) =>
                Discrepancies(i) =
                    {IF i \in DOMAIN arg_journal_positions
                     THEN "failed_exit" ELSE "orphan_broker"}

C10_Witness ==
    /\ returned
    /\ \E i, j \in arg_managed_instruments :
          /\ HasBroker(i) /\ i \notin DOMAIN arg_journal_positions
          /\ Discrepancies(i) = {"orphan_broker"}
          /\ HasBroker(j) /\ j \in DOMAIN arg_journal_positions
          /\ arg_journal_positions[j].direction = None
          /\ Discrepancies(j) = {"failed_exit"}

SpecJournal == JournalInit /\ [][JournalNext]_vars

\* C6: a load() after a save that ended or died returns what a load of the
\* previous positions.json returned or the complete list being saved, never
\* part of it; and after a completed save the temp file is gone.
C6_SaveIsAtomic ==
    /\ (loaded /\ last_call \in {"save", "crash"}) =>
          load_result \in {load([fs EXCEPT !.path = save_prev]),
                           LoadResult("list", save_entries)}
    /\ (last_call = "save" /\ save_pc = "idle") => ~fs.tmp.exists

\* A load after a crash that left the temp file written but not renamed
C6_Witness ==
    /\ loaded /\ last_call = "crash"
    /\ fs.tmp = File(TRUE, json_dumps(save_entries))
    /\ save_prev = File(TRUE, LegacyText)
    /\ Len(save_entries) = 2
    /\ load_result.outcome = "list" /\ Len(load_result.entries) = 1

\* C7: a load() right after save(entries) returns a list equal to entries,
\* field by field and in order, flat entries included.
C7_SaveLoadRoundTrip ==
    (loaded /\ last_call = "save") => load_result = LoadResult("list", save_entries)

C7_Witness ==
    /\ loaded /\ last_call = "save"
    /\ Len(save_entries) = 2
    /\ save_entries[1].direction # None
    /\ save_entries[2] = FlatEntry("A")
    /\ load_result.entries = save_entries

\* C8: load() returns None for a missing file and for a file that cannot be
\* parsed, never raises, and returns the empty list after save([]).
C8_LoadNeverRaises ==
    loaded =>
        /\ load_result.outcome # "raise"
        /\ ~fs.path.exists => load_result.outcome = "none"
        /\ (fs.path.exists /\ fs.path.text \in UnparseableTexts) =>
              load_result.outcome = "none"
        /\ (last_call = "save" /\ save_entries = <<>>) =>
              load_result = LoadResult("list", <<>>)

C8_Witness ==
    /\ loaded
    /\ fs.path = File(TRUE, GarbageText)
    /\ load_result.outcome = "none"


-----------------------------------------------------------------------------
(* position.py: PositionTracker.  Directions are the members of the        *)
(* Direction enum, "LONG" and "SHORT"; their values are "long" and "short".*)

Tracker(direction, size, entry_price, bars_held, mfe_points) ==
    [direction |-> direction, size |-> size, entry_price |-> entry_price,
     bars_held |-> bars_held, mfe_points |-> mfe_points]

\* PositionTracker.__init__
FlatTracker == Tracker(None, None, None, 0, 0)

reset_direction_only(t) == [t EXCEPT !.direction = None]

reset(t) == Tracker(None, None, None, 0, 0)

is_flat(t) == t.direction = None

open_without_price(t, direction, size, entry_price) ==
    Tracker(Some(direction), Some(size), None, 0, 0)

open(t, direction, size, entry_price) ==
    Tracker(Some(direction), Some(size), Some(entry_price), 0, 0)

Max(a, b) == IF a >= b THEN a ELSE b

update_mfe_last_candle(t, candle) ==
    IF t.entry_price = None \/ t.direction = None THEN t
    ELSE [t EXCEPT !.mfe_points = IF Val(t.direction) = "LONG"
                                  THEN candle.high - Val(t.entry_price)
                                  ELSE Val(t.entry_price) - candle.low]

update_mfe(t, candle) ==
    IF t.entry_price = None \/ t.direction = None THEN t
    ELSE LET favorable == IF Val(t.direction) = "LONG"
                          THEN candle.high - Val(t.entry_price)
                          ELSE Val(t.entry_price) - candle.low
         IN  [t EXCEPT !.mfe_points = Max(t.mfe_points, favorable)]

\* Direction.value and Direction(value)
DirectionValue(member) == IF member = "LONG" THEN "long" ELSE "short"
DirectionOf(value) == IF value = "long" THEN "LONG" ELSE "SHORT"

\* PositionTracker.from_dict
from_dict(data) ==
    Tracker(IF data.direction = None THEN None ELSE Some(DirectionOf(Val(data.direction))),
            data.size, data.entry_price, data.bars_held, data.mfe_points)

-----------------------------------------------------------------------------
(* The ReconcilableStrategy protocol, as the strategy of                   *)
(* tests/portfolio/test_orchestrator_reconciliation.py implements it       *)

Strategy(position, entry_atr) == [position |-> position, entry_atr |-> entry_atr]

to_journal_entry_without_bars(strat, instrument) ==
    JournalEntry(instrument,
        IF strat.position.direction = None THEN None
        ELSE Some(DirectionValue(Val(strat.position.direction))),
        strat.position.size, strat.position.entry_price,
        0, strat.position.mfe_points, strat.entry_atr)

to_journal_entry(strat, instrument) ==
    JournalEntry(instrument,
        IF strat.position.direction = None THEN None
        ELSE Some(DirectionValue(Val(strat.position.direction))),
        strat.position.size, strat.position.entry_price,
        strat.position.bars_held, strat.position.mfe_points, strat.entry_atr)

restore_from_journal_without_atr(strat, entry) ==
    Strategy(from_dict(entry), strat.entry_atr)

restore_from_journal(strat, entry) ==
    Strategy(from_dict(entry), entry.entry_atr)

-----------------------------------------------------------------------------
(* portfolio/reconciliation.py: ReconciliationManager *)

\* runner.strategies in dict order
StrategyOrder == <<"A", "B">>

\* A strategy opens size 1.0 at 150.0 with an entry ATR of 0.8; the broker
\* reports its positions at 100.0.
StrategyPrice == 150000000
StrategyAtr == 800000
BrokerPrice == 100000000

\* The candle of the tests: high 101.0, low 99.0
TestCandle == [high |-> 101000000, low |-> 99000000]

\* Most bars a strategy counts on an open position
MaxBars == 1

\* [to_journal_entry(str(inst)) for inst, s in strategies.items()]
Snapshot(strats) ==
    [k \in 1..Len(StrategyOrder) |->
        to_journal_entry(strats[StrategyOrder[k]], StrategyOrder[k])]

\* journal_positions[e.instrument] = e for each entry: the last one wins
JournalByInstrument(entries) ==
    [i \in {entries[k].instrument : k \in 1..Len(entries)} |->
        LET ks == {k \in 1..Len(entries) : entries[k].instrument = i}
        IN  entries[CHOOSE k \in ks : \A m \in ks : m <= k]]

\* {bp.instrument: bp for bp in broker_positions}
BrokerByInstrument(broker_positions) ==
    IndexBroker(broker_positions,
                {broker_positions[k].instrument : k \in 1..Len(broker_positions)})

persist_positions_unmarked(rc, disk, strats, changed_epic) ==
    [rc |-> rc,
     fs |-> IF journal = None THEN disk ELSE save(disk, Snapshot(strats))]

persist_positions_without_save(rc, disk, strats, changed_epic) ==
    [rc |-> IF changed_epic # "" THEN rc \cup {changed_epic} ELSE rc,
     fs |-> disk]

\* persist_positions: the recently-changed set and the disk after the call
persist_positions(rc, disk, strats, changed_epic) ==
    [rc |-> IF changed_epic # "" THEN rc \cup {changed_epic} ELSE rc,
     fs |-> IF journal = None THEN disk ELSE save(disk, Snapshot(strats))]

\* next(e for e in result.entries if e.instrument == epic), Optional
EntryFor(result, epic) ==
    LET ks == {k \in 1..Len(result) : result[k].instrument = epic}
    IN  IF ks = {} THEN None ELSE Some(result[CHOOSE k \in ks : \A m \in ks : k <= m])

adopt_without_price(t, e, broker_by_instrument) ==
    open(t, IF e.broker_direction = Some("BUY") THEN "LONG" ELSE "SHORT",
         OrZero(e.broker_size), 0)

adopt_as_long(t, e, broker_by_instrument) ==
    open(t, "LONG", OrZero(e.broker_size),
         IF e.instrument \in DOMAIN broker_by_instrument
         THEN broker_by_instrument[e.instrument].entry_price ELSE 0)

\* Direction.LONG if entry.broker_direction == "BUY" else Direction.SHORT;
\* entry.broker_size or 0.0; broker_pos.entry_price if broker_pos else 0.0
adopt(t, e, broker_by_instrument) ==
    open(t,
         IF e.broker_direction = Some("BUY") THEN "LONG" ELSE "SHORT",
         OrZero(e.broker_size),
         IF e.instrument \in DOMAIN broker_by_instrument
         THEN broker_by_instrument[e.instrument].entry_price ELSE 0)

Applied(strat, touched) == [strat |-> strat, touched |-> touched]

restore_one_flat_too(strat, epic, journal_positions) ==
    IF epic \notin DOMAIN journal_positions
    THEN Applied(strat, FALSE)
    ELSE Applied(restore_from_journal(strat, journal_positions[epic]), TRUE)

\* _restore_from_journal for one strategy; touched: epic is added to restored
restore_one(strat, epic, journal_positions) ==
    IF epic \notin DOMAIN journal_positions \/ journal_positions[epic].direction = None
    THEN Applied(strat, FALSE)
    ELSE Applied(restore_from_journal(strat, journal_positions[epic]), TRUE)

apply_one_restoring_phantoms(strat, epic, result, journal_positions, broker_by_instrument) ==
    LET entry == EntryFor(result, epic)
        e == Val(entry)
    IN  IF entry = None THEN Applied(strat, FALSE)
        ELSE IF e.discrepancy \in {"matched", "phantom_local", "size_mismatch"} THEN
            IF e.journal_direction # None /\ epic \in DOMAIN journal_positions
            THEN Applied([restore_from_journal(strat, journal_positions[epic])
                             EXCEPT !.position.size =
                                 IF e.broker_size # None THEN e.broker_size ELSE @], TRUE)
            ELSE Applied(strat, FALSE)
        ELSE Applied([strat EXCEPT !.position = adopt(@, e, broker_by_instrument)], TRUE)

\* _apply_reconciliation for one strategy; touched: epic is added to restored
apply_one(strat, epic, result, journal_positions, broker_by_instrument) ==
    LET entry == EntryFor(result, epic)
        e == Val(entry)
    IN  IF entry = None THEN Applied(strat, FALSE)
        ELSE IF e.discrepancy = "matched" /\ e.journal_direction # None THEN
            IF epic \in DOMAIN journal_positions
            THEN Applied(restore_from_journal(strat, journal_positions[epic]), TRUE)
            ELSE Applied(strat, FALSE)
        ELSE IF e.discrepancy = "orphan_broker" THEN
            Applied([strat EXCEPT !.position = adopt(@, e, broker_by_instrument)], TRUE)
        ELSE IF e.discrepancy = "size_mismatch" THEN
            IF epic \in DOMAIN journal_positions /\ e.broker_size # None
            THEN Applied([restore_from_journal(strat, journal_positions[epic])
                             EXCEPT !.position.size = e.broker_size], TRUE)
            ELSE Applied(strat, FALSE)
        ELSE IF e.discrepancy \in {"failed_exit", "direction_mismatch"} THEN
            Applied([strat EXCEPT !.position = adopt(@, e, broker_by_instrument)], TRUE)
        ELSE Applied(strat, FALSE)

\* One strategy after periodic_reconcile's correction loop; touched: the
\* instrument is added to adopted_instruments
correct_one(strat, epic, result, broker_by_instrument) ==
    LET entry == EntryFor(result, epic)
        e == Val(entry)
    IN  IF entry = None \/ e.discrepancy = "matched" THEN Applied(strat, FALSE)
        ELSE IF e.discrepancy = "phantom_local" THEN
            Applied([strat EXCEPT !.position = reset(@)], FALSE)
        ELSE IF e.discrepancy \in {"failed_exit", "orphan_broker"} THEN
            Applied([strat EXCEPT !.position = adopt(@, e, broker_by_instrument)], TRUE)
        ELSE IF e.discrepancy = "size_mismatch" THEN
            Applied([strat EXCEPT !.position.size = e.broker_size], FALSE)
        ELSE
            Applied([strat EXCEPT !.position = adopt(reset(@), e, broker_by_instrument)], TRUE)

\* The history that the properties of successive passes refer to, kept when
\* `on`: the instruments the last fetched pass skipped and that no strategy
\* has notified since (carried), those notified while the pass in progress
\* waits for get_positions (during_fetch), and those in the recently-changed
\* set when a fetch failed since the last fetched pass (failed_with).
NoTrail == [on |-> FALSE, carried |-> {}, during_fetch |-> {}, failed_with |-> {}]

\* persist_positions(epic) was called
TrailNotified(epic) ==
    IF trail.on
    THEN [trail EXCEPT !.carried = @ \ {epic},
                       !.during_fetch = IF pc = "fetch" THEN @ \cup {epic} ELSE @]
    ELSE trail

\* periodic_reconcile resumed with the broker's list and skipped `skipped`
TrailResumed(skipped) ==
    IF trail.on
    THEN [trail EXCEPT !.carried = skipped, !.during_fetch = {}, !.failed_with = {}]
    ELSE trail

\* periodic_reconcile returned on a failed fetch
TrailFetchFailed ==
    IF trail.on
    THEN [trail EXCEPT !.during_fetch = {},
                       !.failed_with = @ \cup recently_changed_instruments]
    ELSE trail

\* The pass in progress: its kind ("startup", "periodic"), how the fetch
\* ended ("pending", "ok", "failed"), the broker's answer until the pass has
\* resumed with it, the instruments it skipped, the set it restored
\* (startup) or adopted (periodic), the number of journal saves it made and
\* the strategies post_warmup_check has still to visit (the first one waits
\* for its candle), the instruments it has requested a candle for, in order,
\* those it has called check_restored_position for, the log records the
\* pass emitted and, when the trail is kept, the trail as the pass found it
\* with the instruments whose tracker disagreed with the broker's list.
NoPass ==
    [kind |-> "none", fetch |-> "none", broker_positions |-> <<>>,
     skipped |-> {}, restored |-> {}, saves |-> 0, queue |-> <<>>,
     requests |-> <<>>, checked |-> {}, log |-> {}, was |-> None]

\* A record of the module's logger that names an instrument: its level, the
\* instrument and the discrepancy it reports.  Only the records of level
\* WARNING and above are modelled.
LogRecord(level, instrument, discrepancy) ==
    [level |-> level, instrument |-> instrument, discrepancy |-> discrepancy]

NotMatched(result) == {k \in 1..Len(result) : result[k].discrepancy # "matched"}

startup_log_warnings_only(result) ==
    {LogRecord("WARNING", result[k].instrument, result[k].discrepancy) :
        k \in NotMatched(result)}

\* reconcile_on_startup: log.warning("Reconciliation: %s -- %s") for every
\* entry that is not MATCHED, log.critical("FAILED EXIT DETECTED: %s ...")
\* for every FAILED_EXIT entry
startup_log(result) ==
    {LogRecord("WARNING", result[k].instrument, result[k].discrepancy) :
        k \in NotMatched(result)}
    \cup {LogRecord("CRITICAL", result[k].instrument, result[k].discrepancy) :
            k \in {m \in 1..Len(result) : result[m].discrepancy = "failed_exit"}}

\* periodic_reconcile: one log.warning for every entry it corrects
\* ("PHANTOM corrected", "Adopted broker position ... (was: %s)", "Size
\* corrected", "Direction corrected")
periodic_log(result) ==
    {LogRecord("WARNING", result[k].instrument, result[k].discrepancy) :
        k \in NotMatched(result)}

local_positions_open_only(strats) ==
    [i \in {j \in Instruments : ~is_flat(strats[j].position)} |->
        to_journal_entry(strats[i], i)]

\* periodic_reconcile's journal_positions: to_journal_entry(epic) of every
\* strategy of the runner
local_positions(strats) == [i \in Instruments |-> to_journal_entry(strats[i], i)]

\* get_historical_candles(epic, target_period, 1) for the strategy the loop
\* has reached
Requested(requests, queue) ==
    IF queue = <<>> THEN requests ELSE Append(requests, Head(queue))

Advance_any_open(queue, strats, instruments) ==
    LET ks == {k \in 1..Len(queue) : ~is_flat(strats[queue[k]].position)}
    IN  IF ks = {} THEN <<>>
        ELSE SubSeq(queue, CHOOSE k \in ks : \A m \in ks : k <= m, Len(queue))

\* post_warmup_check's loop up to its next await: the strategies still to
\* visit, from the first that is in the given set and not flat.
RECURSIVE Advance(_, _, _)
Advance(queue, strats, instruments) ==
    IF queue = <<>> THEN <<>>
    ELSE IF Head(queue) \in instruments /\ ~is_flat(strats[Head(queue)].position)
         THEN queue
    ELSE Advance(Tail(queue), strats, instruments)

\* What get_positions returns: no or one position per instrument, listed in
\* order, A in every size and B in the smallest, or A listed twice.
BrokerAnswers(i, sizes) ==
    {<<>>} \cup {<<BrokerPosition(i, d, s, BrokerPrice)>> : d \in BrokerDirections, s \in sizes}

BrokerLists ==
    {a \o b \o x : a \in BrokerAnswers("A", Sizes), b \in BrokerAnswers("B", {MinSize}),
                   x \in {<<>>, <<BrokerPosition(Foreign, "BUY", MinSize, BrokerPrice)>>}}
    \cup {<<BrokerPosition("A", "BUY", MinSize, BrokerPrice),
            BrokerPosition("A", "SELL", MinSize, BrokerPrice)>>}

Init ==
    /\ journal \in {None, Some("positions.json")}
    /\ strategies = [i \in Instruments |-> Strategy(FlatTracker, 0)]
    /\ recently_changed_instruments = {}
    /\ pc = "boot"
    /\ pass = NoPass
    /\ trail = NoTrail
    /\ fs \in {[dir |-> FALSE, path |-> NoFile, tmp |-> NoFile]} \cup
              {[dir |-> TRUE, path |-> File(TRUE, GarbageText), tmp |-> NoFile] :
                  j \in {journal} \ {None}}
    /\ JournalIdle
    /\ arg_journal_positions = <<>> /\ arg_broker_positions = <<>>
    /\ arg_managed_instruments = {} /\ ret_result = <<>> /\ returned = FALSE
    /\ PortfolioIdle /\ PositionIdle

\* reconcile_on_startup of a manager built without a journal
StartupWithoutJournal ==
    /\ pc = "boot" /\ journal = None
    /\ pc' = "started"
    /\ pass' = [NoPass EXCEPT !.kind = "startup"]
    /\ UNCHANGED <<strategies, recently_changed_instruments, fs, notManager, trail>>

\* reconcile_on_startup when get_positions raises
StartupFetchFailed ==
    /\ pc = "boot" /\ journal # None
    /\ \E journal_entries \in {load(fs)} :
       \E journal_positions \in {JournalByInstrument(journal_entries.entries)} :
       \E r \in {[i \in Instruments |->
                    IF journal_entries.outcome = "list"
                    THEN restore_one(strategies[i], i, journal_positions)
                    ELSE Applied(strategies[i], FALSE)]} :
           /\ strategies' = [i \in Instruments |-> r[i].strat]
           /\ pass' = [NoPass EXCEPT !.kind = "startup", !.fetch = "failed",
                          !.restored = {i \in Instruments : r[i].touched}]
    /\ pc' = "started"
    /\ UNCHANGED <<recently_changed_instruments, fs, notManager, trail>>

\* get_positions answers reconcile_on_startup with broker_positions
StartupFetched(broker_positions) ==
    /\ pc = "boot" /\ journal # None
    /\ pc' = "boot_fetched"
    /\ pass' = [NoPass EXCEPT !.kind = "startup", !.fetch = "ok",
                   !.broker_positions = broker_positions]
    /\ UNCHANGED <<strategies, recently_changed_instruments, fs, notManager, trail>>

\* reconcile_on_startup, resumed with the broker's answer
startup_resume(broker_positions) ==
    /\ \E journal_positions \in {JournalByInstrument(load(fs).entries)} :
       \E result \in {reconcile(journal_positions, broker_positions, Instruments)} :
       \E r \in {[i \in Instruments |->
                    apply_one(strategies[i], i, result, journal_positions,
                              BrokerByInstrument(broker_positions))]} :
       \E after \in {[i \in Instruments |-> r[i].strat]} :
       \E persisted \in {persist_positions(recently_changed_instruments, fs, after, "")} :
           /\ strategies' = after
           /\ pass' = [NoPass EXCEPT !.kind = "startup", !.fetch = "ok",
                          !.restored = {i \in Instruments : r[i].touched},
                          !.saves = IF is_clean(result) THEN 0 ELSE 1,
                          !.log = startup_log(result)]
           /\ fs' = IF is_clean(result) THEN fs ELSE persisted.fs
           /\ recently_changed_instruments' =
                 IF is_clean(result) THEN recently_changed_instruments ELSE persisted.rc
    /\ pc' = "started"

StartupResume ==
    /\ pc = "boot_fetched"
    /\ startup_resume(pass.broker_positions)
    /\ UNCHANGED <<notManager, trail>>

\* The orchestrator calls post_warmup_check(restored) after the warmup.
PostWarmupBegin ==
    /\ pc = "started"
    /\ LET queue == Advance(StrategyOrder, strategies, pass.restored)
       IN  /\ pass' = [pass EXCEPT !.queue = queue,
                                   !.requests = Requested(<<>>, queue)]
           /\ pc' = IF queue = <<>> THEN "running" ELSE "check"
    /\ UNCHANGED <<strategies, recently_changed_instruments, fs, notManager, trail>>

next_in_loop_unless_failed(outcome, queue, strats, instruments) ==
    IF outcome \in {"fetch_failed", "check_raised"} THEN <<>>
    ELSE Advance(Tail(queue), strats, instruments)

\* post_warmup_check after the visit of the head of the queue, whatever its
\* outcome: on with the loop
next_in_loop(outcome, queue, strats, instruments) ==
    Advance(Tail(queue), strats, instruments)

\* post_warmup_check for the strategy at the head of the queue: the candle
\* request ends ("fetch_failed", "no_candles") or check_restored_position
\* runs and raises, keeps the position or closes it; a strategy that closes
\* its position notifies the change.
CheckStep(outcome) ==
    /\ pc = "check"
    /\ \E epic \in {Head(pass.queue)}, exits \in {outcome = "exited"} :
       \E after \in {IF exits THEN [strategies EXCEPT ![epic].position = reset(@)]
                      ELSE strategies} :
       \E persisted \in {persist_positions(recently_changed_instruments, fs, after, epic)} :
       \E queue \in {next_in_loop(outcome, pass.queue, after, pass.restored)} :
           /\ exits => ~is_flat(strategies[epic].position)
           /\ strategies' = after
           /\ fs' = IF exits THEN persisted.fs ELSE fs
           /\ recently_changed_instruments' =
                 IF exits THEN persisted.rc ELSE recently_changed_instruments
           /\ pass' = [pass EXCEPT !.queue = queue,
                                   !.saves = IF exits /\ journal # None THEN @ + 1 ELSE @,
                                   !.requests = Requested(@, queue),
                                   !.checked =
                                       IF outcome \in {"fetch_failed", "no_candles"}
                                       THEN @ ELSE @ \cup {epic}]
           /\ trail' = IF exits THEN TrailNotified(epic) ELSE trail
           /\ pc' = IF queue = <<>> THEN "running" ELSE "check"
    /\ UNCHANGED notManager

PeriodicBegin_without_journal_too ==
    /\ pc = "running"
    /\ pc' = "fetch"
    /\ pass' = [NoPass EXCEPT !.kind = "periodic", !.fetch = "pending"]
    /\ UNCHANGED <<strategies, recently_changed_instruments, fs, notManager, trail>>

\* periodic_reconcile up to its await of get_positions; _should_reconcile_now
\* lets a pass start only in a manager that has a journal
PeriodicBegin ==
    /\ pc = "running" /\ journal # None
    /\ pc' = "fetch"
    /\ pass' = [NoPass EXCEPT !.kind = "periodic", !.fetch = "pending"]
    /\ UNCHANGED <<strategies, recently_changed_instruments, fs, notManager, trail>>

managed_instruments_unfiltered(skipped) == Instruments

managed_instruments_less_carried(skipped) == Instruments \ (skipped \cup trail.carried)

\* {str(inst) for inst in self._runner.strategies}, less the skipped ones
managed_instruments(skipped) == Instruments \ skipped

\* The instruments whose local position the broker's list does not match
Disagreeing(journal_positions, broker_positions) ==
    {i \in Instruments :
        classify(journal_positions, IndexBroker(broker_positions, Instruments), i).discrepancy
            # "matched"}

copy_before_fetch(rc) == rc \ trail.during_fetch

\* skipped = self._recently_changed_instruments.copy(), taken once
\* get_positions has returned
copy_after_fetch(rc) == rc

\* periodic_reconcile, resumed with the broker's answer
periodic_resume(broker_positions) ==
    \E journal_positions \in {local_positions(strategies)},
       skipped \in {copy_after_fetch(recently_changed_instruments)} :
    \E result \in {reconcile(journal_positions, broker_positions,
                              managed_instruments(skipped))} :
    \E r \in {[i \in Instruments |->
                 correct_one(strategies[i], i, result, BrokerByInstrument(broker_positions))]} :
    \E after \in {[i \in Instruments |-> r[i].strat]},
       corrected \in {~is_clean(result)},
       adopted \in {{i \in Instruments : r[i].touched}} :
    \E persisted \in {persist_positions({}, fs, after, "")},
       queue \in {Advance(StrategyOrder, after, adopted)} :
        /\ strategies' = after
        /\ recently_changed_instruments' = IF corrected THEN persisted.rc ELSE {}
        /\ fs' = IF corrected THEN persisted.fs ELSE fs
        /\ pass' = [pass EXCEPT !.fetch = "ok", !.broker_positions = <<>>,
                       !.skipped = skipped,
                       !.restored = adopted,
                       !.saves = IF corrected THEN 1 ELSE 0,
                       !.log = periodic_log(result),
                       !.queue = queue,
                       !.requests = Requested(<<>>, queue),
                       !.was = IF trail.on
                               THEN Some([carried |-> trail.carried,
                                          during_fetch |-> trail.during_fetch,
                                          failed_with |-> trail.failed_with,
                                          disagreed |-> Disagreeing(journal_positions,
                                                                    broker_positions)])
                               ELSE None]
        /\ trail' = TrailResumed(skipped)
        /\ pc' = IF queue = <<>> THEN "running" ELSE "check"

\* get_positions answers periodic_reconcile with broker_positions
PeriodicFetched(broker_positions) ==
    /\ pc = "fetch"
    /\ pc' = "fetched"
    /\ pass' = [pass EXCEPT !.fetch = "ok", !.broker_positions = broker_positions]
    /\ UNCHANGED <<strategies, recently_changed_instruments, fs, notManager, trail>>

PeriodicResume ==
    /\ pc = "fetched"
    /\ periodic_resume(pass.broker_positions)
    /\ UNCHANGED notManager

PeriodicFetchFailed_as_empty ==
    /\ pc = "fetch"
    /\ periodic_resume(<<>>)
    /\ UNCHANGED notManager

PeriodicFetchFailed_clearing ==
    /\ pc = "fetch"
    /\ pass' = [pass EXCEPT !.fetch = "failed"]
    /\ pc' = "running"
    /\ trail' = TrailFetchFailed
    /\ recently_changed_instruments' = {}
    /\ UNCHANGED <<strategies, fs, notManager>>

\* periodic_reconcile when get_positions raises: the pass is skipped
PeriodicFetchFailed ==
    /\ pc = "fetch"
    /\ pass' = [pass EXCEPT !.fetch = "failed"]
    /\ pc' = "running"
    /\ trail' = TrailFetchFailed
    /\ UNCHANGED <<strategies, recently_changed_instruments, fs, notManager>>

\* The strategies' tasks run once the manager has started, also while a
\* periodic pass is suspended in an await.
StrategiesRun ==
    pc = "running" \/ (pc \in {"fetch", "check"} /\ pass.kind = "periodic")

\* A strategy changed its position and notified it: persist_positions(epic)
Notified(after, epic) ==
    \E persisted \in {persist_positions(recently_changed_instruments, fs, after, epic)} :
        /\ strategies' = after
        /\ recently_changed_instruments' = persisted.rc
        /\ fs' = persisted.fs
        /\ pass' = IF pc = "running" THEN NoPass ELSE pass
        /\ trail' = TrailNotified(epic)
        /\ UNCHANGED <<pc, notManager>>

StrategyOpen(epic, direction) ==
    /\ StrategiesRun
    /\ is_flat(strategies[epic].position)
    /\ Notified([strategies EXCEPT
                    ![epic] = Strategy(open(@.position, direction, MinSize, StrategyPrice),
                                       StrategyAtr)], epic)

StrategyClose(epic) ==
    /\ StrategiesRun
    /\ ~is_flat(strategies[epic].position)
    /\ Notified([strategies EXCEPT ![epic].position = reset(@)], epic)

\* A bar closes on an open position: one more bar held, MFE updated
StrategyBar(epic) ==
    /\ StrategiesRun
    /\ ~is_flat(strategies[epic].position)
    /\ strategies[epic].position.bars_held < MaxBars
    /\ strategies' = [strategies EXCEPT
           ![epic].position = update_mfe([@ EXCEPT !.bars_held = @ + 1], TestCandle)]
    /\ pass' = IF pc = "running" THEN NoPass ELSE pass
    /\ UNCHANGED <<recently_changed_instruments, fs, pc, notManager, trail>>

\* The process dies and is started again: memory is lost, the disk is kept.
Restart ==
    /\ pc \notin {"boot", "boot_fetched", "fetched"}
    /\ strategies' = [i \in Instruments |-> Strategy(FlatTracker, 0)]
    /\ recently_changed_instruments' = {}
    /\ pc' = "boot"
    /\ pass' = NoPass
    /\ trail' = IF trail.on THEN [NoTrail EXCEPT !.on = TRUE] ELSE trail
    /\ UNCHANGED <<fs, notManager>>

Next ==
    \/ StartupWithoutJournal
    \/ StartupFetchFailed
    \/ \E broker_positions \in BrokerLists : StartupFetched(broker_positions)
    \/ StartupResume
    \/ PostWarmupBegin
    \/ \E outcome \in {"fetch_failed", "no_candles", "check_raised", "retained", "exited"} :
          CheckStep(outcome)
    \/ PeriodicBegin
    \/ \E broker_positions \in BrokerLists : PeriodicFetched(broker_positions)
    \/ PeriodicResume
    \/ PeriodicFetchFailed
    \/ \E epic \in Instruments, direction \in {"LONG", "SHORT"} : StrategyOpen(epic, direction)
    \/ \E epic \in Instruments : StrategyClose(epic)
    \/ \E epic \in Instruments : StrategyBar(epic)
    \/ Restart

Spec == Init /\ [][Next]_vars

CheckOutcomes == {"fetch_failed", "no_candles", "check_raised", "retained", "exited"}

\* ---------------------------------------------------------------------------
\* Successive periodic passes of one manager that has a journal, with the
\* history of the passes kept in `trail`.
\* ---------------------------------------------------------------------------

InitPasses ==
    /\ journal = Some("positions.json")
    /\ strategies = [i \in Instruments |-> Strategy(FlatTracker, 0)]
    /\ recently_changed_instruments = {}
    /\ pc = "boot"
    /\ pass = NoPass
    /\ trail = [NoTrail EXCEPT !.on = TRUE]
    /\ fs \in {[dir |-> FALSE, path |-> NoFile, tmp |-> NoFile],
               [dir |-> TRUE, path |-> File(TRUE, GarbageText), tmp |-> NoFile]}
    /\ JournalIdle
    /\ arg_journal_positions = <<>> /\ arg_broker_positions = <<>>
    /\ arg_managed_instruments = {} /\ ret_result = <<>> /\ returned = FALSE
    /\ PortfolioIdle /\ PositionIdle

NextPasses ==
    \/ StartupFetchFailed
    \/ \E broker_positions \in BrokerLists : StartupFetched(broker_positions)
    \/ StartupResume
    \/ PostWarmupBegin
    \/ \E outcome \in CheckOutcomes : CheckStep(outcome)
    \/ PeriodicBegin
    \/ \E broker_positions \in BrokerLists : PeriodicFetched(broker_positions)
    \/ PeriodicResume
    \/ PeriodicFetchFailed
    \/ \E epic \in Instruments, direction \in {"LONG", "SHORT"} : StrategyOpen(epic, direction)
    \/ \E epic \in Instruments : StrategyClose(epic)

SpecPasses == InitPasses /\ [][NextPasses]_vars


-----------------------------------------------------------------------------
(* Properties of the manager *)


\* A step of post_warmup_check inside a periodic pass
PeriodicCheckStep == pass.kind = "periodic" /\ \E outcome \in CheckOutcomes : CheckStep(outcome)

BrokerHolds(broker_positions, i) ==
    \E k \in 1..Len(broker_positions) : broker_positions[k].instrument = i

\* The position the broker reports for i: the last one listed
BrokerHeld(broker_positions, i) ==
    LET ks == {k \in 1..Len(broker_positions) : broker_positions[k].instrument = i}
    IN  broker_positions[CHOOSE k \in ks : \A m \in ks : m <= k]

TrackerSide(t) == IF Val(t.direction) = "LONG" THEN "BUY" ELSE "SELL"

AllMatched(result) == \A k \in 1..Len(result) : result[k].discrepancy = "matched"

\* C1: reconcile_on_startup with a successful fetch saves the journal once,
\* with the strategies' snapshot, when some entry of the result is not
\* MATCHED, and does not touch the journal when every entry is MATCHED.
C1_StartupPersistsIffNotClean ==
    [][StartupResume =>
        LET result == reconcile(JournalByInstrument(load(fs).entries),
                                pass.broker_positions, Instruments)
        IN  /\ AllMatched(result) => (pass'.saves = 0 /\ fs' = fs)
            /\ ~AllMatched(result) =>
                  /\ pass'.saves = 1
                  /\ load(fs') = LoadResult("list", Snapshot(strategies'))]_vars

\* A startup pass fetched, found a discrepancy, adopted a position and saved.
C1_Witness ==
    /\ pc = "started" /\ pass.kind = "startup" /\ pass.fetch = "ok"
    /\ pass.saves = 1
    /\ \E i \in pass.restored : ~is_flat(strategies[i].position)
    /\ load(fs) = LoadResult("list", Snapshot(strategies))

\* C2: when get_positions fails in periodic_reconcile the pass ends
\* normally with every tracker, the journal and the recently-changed set as
\* they were.
C2_FetchFailureSkipsPass ==
    [][PeriodicFetchFailed =>
        /\ strategies' = strategies
        /\ fs' = fs /\ pass'.saves = 0
        /\ recently_changed_instruments' = recently_changed_instruments
        /\ pc' = "running"]_vars

\* A periodic pass ended on a failed fetch while a position was open and an
\* instrument was marked recently changed.
C2_Witness ==
    /\ pc = "running" /\ pass.kind = "periodic" /\ pass.fetch = "failed"
    /\ \E i \in Instruments : ~is_flat(strategies[i].position)
    /\ recently_changed_instruments # {}

\* C3 as stated: a periodic pass whose fetch succeeds leaves the tracker of
\* every recently-changed instrument as it was, and the recently-changed set
\* is empty when the pass has finished.
C3_SkippedUntouchedAndSetEmptyAtEnd ==
    [][/\ PeriodicResume =>
              \A i \in recently_changed_instruments : strategies'[i] = strategies[i]
       /\ PeriodicCheckStep => \A i \in pass.skipped : strategies'[i] = strategies[i]
       /\ (/\ pc \in {"fetched", "check"} /\ pc' = "running"
           /\ pass'.kind = "periodic" /\ pass'.fetch = "ok")
             => recently_changed_instruments' = {}]_vars

\* C3: a periodic pass whose fetch succeeds leaves the tracker of every
\* recently-changed instrument as it was and has emptied the recently-changed
\* set when its corrections are done; in its exit check the set gains exactly
\* the instrument whose strategy closes its position, so the set is empty at
\* the end of a pass that needs no exit check.
C3_SkippedUntouchedAndSetCleared ==
    [][/\ PeriodicResume =>
              /\ \A i \in recently_changed_instruments : strategies'[i] = strategies[i]
              /\ recently_changed_instruments' = {}
              /\ pass'.skipped = recently_changed_instruments
       /\ PeriodicCheckStep =>
              /\ \A i \in pass.skipped : strategies'[i] = strategies[i]
              /\ recently_changed_instruments' \in
                    {recently_changed_instruments,
                     recently_changed_instruments \cup {Head(pass.queue)}}
              /\ recently_changed_instruments' # recently_changed_instruments
                    => is_flat(strategies'[Head(pass.queue)].position)]_vars

\* A periodic pass skipped an instrument with an open position, corrected
\* another one and ended with the set empty.
C3_Witness ==
    /\ pc = "running" /\ pass.kind = "periodic" /\ pass.fetch = "ok"
    /\ \E i \in pass.skipped : ~is_flat(strategies[i].position)
    /\ pass.saves = 1
    /\ recently_changed_instruments = {}

\* C4: when get_positions fails in reconcile_on_startup, every strategy
\* whose journal entry has a direction gets the entry's direction, size,
\* entry price, bars held, MFE and entry ATR, every other strategy is as it
\* was, the journal is not written and the returned set is the set of the
\* instruments restored.
C4_StartupFallsBackToJournal ==
    [][StartupFetchFailed =>
        LET journal_entries == load(fs)
            journal_positions == JournalByInstrument(journal_entries.entries)
            held == IF journal_entries.outcome # "list" THEN {}
                    ELSE {i \in Instruments \cap DOMAIN journal_positions :
                             journal_positions[i].direction # None}
        IN  /\ \A i \in held :
                 LET e == journal_positions[i]
                     t == strategies'[i].position
                 IN  /\ t.direction # None
                     /\ DirectionValue(Val(t.direction)) = Val(e.direction)
                     /\ t.size = e.size /\ t.entry_price = e.entry_price
                     /\ t.bars_held = e.bars_held /\ t.mfe_points = e.mfe_points
                     /\ strategies'[i].entry_atr = e.entry_atr
            /\ \A i \in Instruments \ held : strategies'[i] = strategies[i]
            /\ fs' = fs /\ pass'.saves = 0
            /\ pass'.restored = held
            /\ pc' = "started"]_vars

\* A startup pass could not fetch and restored a held position, with its
\* bars, from the journal while another journal entry was flat.
C4_Witness ==
    /\ pc = "started" /\ pass.kind = "startup" /\ pass.fetch = "failed"
    /\ pass.restored # {} /\ pass.restored # Instruments
    /\ \E i \in pass.restored : strategies[i].position.bars_held > 0
    /\ \E i \in Instruments \ pass.restored :
          JournalByInstrument(load(fs).entries)[i].entry_atr # 0

\* C5 as stated: after the corrections of a periodic pass whose fetch
\* succeeded, the tracker of every instrument not skipped is flat exactly when
\* the broker holds nothing for it, and otherwise has the broker's direction
\* and the broker's size.
C5_TrackersEqualBroker ==
    [][PeriodicResume =>
        \A i \in Instruments \ recently_changed_instruments :
            LET t == strategies'[i].position
            IN  /\ is_flat(t) <=> ~BrokerHolds(pass.broker_positions, i)
                /\ ~is_flat(t) =>
                      /\ TrackerSide(t) = BrokerHeld(pass.broker_positions, i).direction
                      /\ Val(t.size) = BrokerHeld(pass.broker_positions, i).size]_vars

\* C5: when the corrections of a periodic pass whose fetch succeeded are
\* done, the tracker of every instrument not skipped is flat exactly when the
\* broker holds nothing for it, and otherwise has the broker's direction and
\* a size within the tolerance of the broker's, so that reconcile on the
\* trackers and the same broker positions yields MATCHED for each of them.
C5_TrackersAgreeWithBroker ==
    [][PeriodicResume =>
        LET broker_positions == pass.broker_positions
            managed == Instruments \ recently_changed_instruments
            again == reconcile([i \in Instruments |-> to_journal_entry(strategies'[i], i)],
                               broker_positions, managed)
        IN  /\ \A i \in managed :
                 LET t == strategies'[i].position
                 IN  /\ is_flat(t) <=> ~BrokerHolds(broker_positions, i)
                     /\ ~is_flat(t) =>
                           /\ TrackerSide(t) = BrokerHeld(broker_positions, i).direction
                           /\ Abs(Val(t.size) - BrokerHeld(broker_positions, i).size)
                                 <= SizeTolerance
            /\ AllMatched(again)
            /\ {again[k].instrument : k \in 1..Len(again)} = managed]_vars

\* A periodic pass adopted a position at the broker's price and corrected
\* the size of another.
C5_Witness ==
    /\ pass.kind = "periodic" /\ pass.fetch = "ok" /\ pass.saves = 1
    /\ pass.skipped = {}
    /\ \E i \in pass.restored : strategies[i].position.entry_price = Some(BrokerPrice)
    /\ \E i \in Instruments \ pass.restored :
          /\ ~is_flat(strategies[i].position)
          /\ strategies[i].position.entry_price = Some(StrategyPrice)
          /\ strategies[i].position.size # Some(MinSize)


-----------------------------------------------------------------------------
(* Further properties of reconcile *)

ManagedOnly(broker_positions, managed) ==
    SelectSeq(broker_positions, LAMBDA bp : bp.instrument \in managed)

\* C11: every entry of a reconcile result names a managed instrument, and the
\* result, hence is_clean, is the one reconcile gives when the broker
\* positions of unmanaged instruments are taken off the list.
C11_UnmanagedIgnored ==
    returned =>
        /\ \A k \in 1..Len(ret_result) : ret_result[k].instrument \in arg_managed_instruments
        /\ ret_result = reconcile(arg_journal_positions,
                                  ManagedOnly(arg_broker_positions, arg_managed_instruments),
                                  arg_managed_instruments)
        /\ AllMatched(ret_result) <=>
              AllMatched(reconcile(arg_journal_positions,
                                   ManagedOnly(arg_broker_positions, arg_managed_instruments),
                                   arg_managed_instruments))

\* The broker lists a position of an unmanaged instrument, held in the journal
\* too, next to a managed one, and the result is clean.
C11_Witness ==
    /\ returned
    /\ \E k \in 1..Len(arg_broker_positions) :
          /\ arg_broker_positions[k].instrument \notin arg_managed_instruments
          /\ arg_broker_positions[k].instrument \in DOMAIN arg_journal_positions
    /\ \E k \in 1..Len(arg_broker_positions) :
          arg_broker_positions[k].instrument \in arg_managed_instruments
    /\ AllMatched(ret_result) /\ ret_result # <<>>

\* C12: for a managed instrument the broker lists no position for, the result
\* is MATCHED when the journal has no entry or an entry without direction,
\* and PHANTOM_LOCAL when the journal entry has a direction.
C12_BrokerFlatClassification ==
    returned =>
        \A i \in arg_managed_instruments :
            ~HasBroker(i) =>
                Discrepancies(i) =
                    {IF JournalOpen(i) THEN "phantom_local" ELSE "matched"}

\* One managed instrument is a phantom, another has a flat journal entry and
\* no broker position.
C12_Witness ==
    /\ returned
    /\ \E i, j \in arg_managed_instruments :
          /\ ~HasBroker(i) /\ JournalOpen(i) /\ Discrepancies(i) = {"phantom_local"}
          /\ ~HasBroker(j) /\ j \in DOMAIN arg_journal_positions
          /\ ~JournalOpen(j) /\ Discrepancies(j) = {"matched"}


-----------------------------------------------------------------------------
(* Further properties of the manager *)

\* The journal reconcile_on_startup loads, by instrument
StartupJournal == JournalByInstrument(load(fs).entries)

\* The result of the startup pass that resumes with pass.broker_positions
StartupResult == reconcile(StartupJournal, pass.broker_positions, Instruments)

\* The result of the periodic pass that resumes with pass.broker_positions
PeriodicResult ==
    reconcile([i \in Instruments |-> to_journal_entry(strategies[i], i)],
              pass.broker_positions, Instruments \ recently_changed_instruments)

\* The instruments a result classifies as one of the given discrepancies
Classified(result, discrepancies) ==
    {result[k].instrument : k \in {m \in 1..Len(result) :
                                      result[m].discrepancy \in discrepancies}}

\* A tracker opened from a broker position, without history
BrokerTracker(bp) ==
    Tracker(Some(IF bp.direction = "BUY" THEN "LONG" ELSE "SHORT"),
            Some(bp.size), Some(bp.entry_price), 0, 0)

\* The strategy holds what the journal entry records, field by field
EntryMatches(strat, e) ==
    /\ strat.position.direction = None <=> e.direction = None
    /\ strat.position.direction # None =>
          \/ Val(strat.position.direction) = "LONG" /\ Val(e.direction) = "long"
          \/ Val(strat.position.direction) = "SHORT" /\ Val(e.direction) = "short"
    /\ strat.position.size = e.size
    /\ strat.position.entry_price = e.entry_price
    /\ strat.position.bars_held = e.bars_held
    /\ strat.position.mfe_points = e.mfe_points
    /\ strat.entry_atr = e.entry_atr

\* C13: reconcile_on_startup leaves the tracker of every instrument classified
\* ORPHAN_BROKER, FAILED_EXIT or DIRECTION_MISMATCH as a tracker opened from
\* the broker's position: LONG for BUY and SHORT for SELL, the broker's size
\* and entry price, no bars held and no MFE.
C13_StartupAdoptsBrokerPosition ==
    [][StartupResume =>
        \A adopted \in {Classified(StartupResult,
                            {"orphan_broker", "failed_exit", "direction_mismatch"})} :
        \A i \in adopted :
            /\ strategies'[i].position = BrokerTracker(BrokerHeld(pass.broker_positions, i))
            /\ i \in pass'.restored]_vars

\* A startup pass adopted a short position of size 1.5 at the broker's price.
C13_Witness ==
    /\ pc = "started" /\ pass.kind = "startup" /\ pass.fetch = "ok"
    /\ \E i \in pass.restored :
          strategies[i].position =
              Tracker(Some("SHORT"), Some(1500000), Some(BrokerPrice), 0, 0)

\* C14: reconcile_on_startup leaves the strategy of an instrument classified
\* MATCHED with a position holding the journal entry's direction, size, entry
\* price, bars held, MFE and entry ATR, and the strategy of an instrument
\* classified SIZE_MISMATCH holding the same but for the size, which is the
\* broker's.
C14_StartupRestoresFromJournal ==
    [][StartupResume =>
        \A by_instrument \in {StartupJournal}, result \in {StartupResult} :
        /\ \A i \in Classified(result, {"matched"}) :
              (i \in DOMAIN by_instrument /\ by_instrument[i].direction # None) =>
                 /\ EntryMatches(strategies'[i], by_instrument[i])
                 /\ i \in pass'.restored
        /\ \A i \in Classified(result, {"size_mismatch"}) :
              /\ EntryMatches([strategies'[i] EXCEPT !.position.size = by_instrument[i].size],
                              by_instrument[i])
              /\ strategies'[i].position.size =
                    Some(BrokerHeld(pass.broker_positions, i).size)
              /\ i \in pass'.restored]_vars

\* A startup pass restored one strategy with its bars and entry ATR at the
\* broker's size 1.5 and another one at the size the strategy opened.
C14_Witness ==
    /\ pc = "started" /\ pass.kind = "startup" /\ pass.fetch = "ok"
    /\ \E i, j \in pass.restored :
          /\ strategies[i].position.size = Some(1500000)
          /\ strategies[i].position.entry_price = Some(StrategyPrice)
          /\ strategies[i].position.bars_held > 0
          /\ strategies[i].entry_atr = StrategyAtr
          /\ strategies[j].position.size = Some(MinSize)
          /\ strategies[j].position.entry_price = Some(StrategyPrice)
          /\ strategies[j].position.bars_held > 0

\* C15: the journal on disk always records, field by field, what every
\* strategy held when persist_positions last saved; a restart keeps the
\* disk; and reconcile_on_startup gives back to the strategy of every
\* instrument for which the broker reports the journal's direction and size
\* the direction, size, entry price, bars held, MFE and entry ATR of its
\* journal entry.
C15_RestartKeepsPositionContext ==
    [][/\ fs' # fs =>
             \A saved \in {load(fs')} :
             \A by_instrument \in {JournalByInstrument(saved.entries)} :
                 /\ saved.outcome = "list"
                 /\ DOMAIN by_instrument = Instruments
                 /\ \A i \in Instruments : EntryMatches(strategies'[i], by_instrument[i])
       /\ Restart => fs' = fs /\ journal' = journal
       /\ StartupResume =>
             \A by_instrument \in {StartupJournal} :
             \A i \in Instruments \cap DOMAIN by_instrument :
                 (/\ by_instrument[i].direction # None
                  /\ BrokerHolds(pass.broker_positions, i)
                  /\ DirectionMapping(Val(by_instrument[i].direction))
                        = BrokerHeld(pass.broker_positions, i).direction
                  /\ by_instrument[i].size
                        = Some(BrokerHeld(pass.broker_positions, i).size))
                 => EntryMatches(strategies'[i], by_instrument[i])]_vars

\* After a restart the startup pass found the broker agreeing, wrote nothing
\* and the strategies hold again, bars included, what the journal records.
C15_Witness ==
    /\ pc = "started" /\ pass.kind = "startup" /\ pass.fetch = "ok"
    /\ pass.saves = 0 /\ pass.restored = Instruments
    /\ \E i \in Instruments : strategies[i].position.bars_held > 0
    /\ \A i \in Instruments :
          EntryMatches(strategies[i], JournalByInstrument(load(fs).entries)[i])

\* C16: for every PHANTOM_LOCAL instrument periodic_reconcile leaves the
\* tracker as a flat one (no direction, size or entry price, no bars held, no
\* MFE), and reconcile_on_startup leaves the strategy as it was and the
\* instrument out of the returned set.
C16_PhantomResetOnlyWhenPeriodic ==
    [][/\ PeriodicResume =>
             \A phantoms \in {Classified(PeriodicResult, {"phantom_local"})} :
             \A i \in phantoms :
                 /\ ~is_flat(strategies[i].position)
                 /\ strategies'[i].position = Tracker(None, None, None, 0, 0)
       /\ StartupResume =>
             \A phantoms \in {Classified(StartupResult, {"phantom_local"})} :
             \A i \in phantoms :
                 /\ strategies'[i] = strategies[i]
                 /\ i \notin pass'.restored]_vars

\* A periodic pass that skipped nothing and adopted nothing saved a
\* correction and left every tracker flat: it reset a phantom.
C16_Witness ==
    /\ pc = "running" /\ pass.kind = "periodic" /\ pass.fetch = "ok"
    /\ pass.skipped = {} /\ pass.restored = {} /\ pass.saves = 1
    /\ \A i \in Instruments : strategies[i].position = FlatTracker
    /\ \E i \in Instruments : strategies[i].entry_atr # 0

\* C17: a periodic pass enters post_warmup_check, after its corrections, with
\* exactly the instruments it classified FAILED_EXIT, ORPHAN_BROKER or
\* DIRECTION_MISMATCH, requesting the first candle for one of them; when there
\* is none it makes no exit check and ends.
C17_ExitCheckForAdoptedOnly ==
    [][/\ PeriodicResume =>
             \A adopted \in {Classified(PeriodicResult,
                               {"failed_exit", "orphan_broker", "direction_mismatch"})} :
                 /\ pass'.restored = adopted
                 /\ adopted = {} => (pc' = "running" /\ pass'.requests = <<>>)
                 /\ adopted # {} =>
                       /\ pc' = "check"
                       /\ pass'.requests = <<Head(pass'.queue)>>
                       /\ Head(pass'.queue) \in adopted
                       /\ \A i \in adopted :
                             strategies'[i].position =
                                 BrokerTracker(BrokerHeld(pass.broker_positions, i))
       /\ PeriodicCheckStep =>
             /\ pass'.restored = pass.restored
             /\ \A k \in 1..Len(pass'.requests) : pass'.requests[k] \in pass.restored]_vars

\* A periodic pass corrected the size of one position and adopted another:
\* its exit check waits for the candle of the adopted one only.
C17_Witness ==
    /\ pc = "check" /\ pass.kind = "periodic" /\ pass.saves = 1
    /\ \E i \in pass.restored, j \in Instruments \ pass.restored :
          /\ pass.requests = <<i>>
          /\ strategies[j].position.size = Some(1500000)
          /\ strategies[j].position.entry_price = Some(StrategyPrice)

\* The journal on disk holds one entry per strategy, in the strategies'
\* order, each recording what its strategy holds
SnapshotOnDisk(disk, strats) ==
    \A saved \in {load(disk)} :
        /\ saved.outcome = "list"
        /\ Len(saved.entries) = Len(StrategyOrder)
        /\ \A k \in 1..Len(StrategyOrder) :
              /\ saved.entries[k].instrument = StrategyOrder[k]
              /\ EntryMatches(strats[StrategyOrder[k]], saved.entries[k])

\* The corrections of a periodic pass: nothing changed and nothing written
\* when the result is clean, otherwise some tracker changed and one save of
\* the corrected strategies
PeriodicCorrectionsSaveOnce ==
    PeriodicResume =>
        \A result \in {PeriodicResult} :
            /\ AllMatched(result) =>
                  (strategies' = strategies /\ fs' = fs /\ pass'.saves = 0)
            /\ ~AllMatched(result) =>
                  /\ strategies' # strategies
                  /\ pass'.saves = 1
                  /\ SnapshotOnDisk(fs', strategies')

Due(from, strats, instruments) ==
    {k \in from..Len(StrategyOrder) :
        /\ StrategyOrder[k] \in instruments
        /\ ~is_flat(strats[StrategyOrder[k]].position)}

Place(epic) == CHOOSE k \in 1..Len(StrategyOrder) : StrategyOrder[k] = epic

\* The loop makes its next candle request for the first due instrument, and
\* ends without a request when none is due
LoopGoesOn(from, requests, instruments) ==
    \A due \in {Due(from, strategies', instruments)} :
        IF due = {}
        THEN pc' = "running" /\ pass'.requests = requests
        ELSE /\ pc' = "check"
             /\ pass'.requests =
                   Append(requests, StrategyOrder[CHOOSE k \in due : \A m \in due : k <= m])

\* C19: in post_warmup_check, whatever happens to one instrument (its candle
\* request fails or returns nothing, its check raises, keeps or closes the
\* position), the loop goes on to the next instrument of the given set with
\* a non-flat tracker; a candle is requested once per visited instrument and
\* never for an instrument outside the set or with a flat tracker, and only
\* an instrument whose candle was requested is checked.
C19_CheckIsolatedPerInstrument ==
    [][/\ PostWarmupBegin => LoopGoesOn(1, <<>>, pass.restored)
       /\ PeriodicResume => LoopGoesOn(1, <<>>, pass'.restored)
       /\ (\E outcome \in CheckOutcomes : CheckStep(outcome)) =>
             \A epic \in {pass.requests[Len(pass.requests)]} :
                 /\ epic \in pass.restored
                 /\ LoopGoesOn(Place(epic) + 1, pass.requests, pass.restored)
                 /\ pass'.checked \in {pass.checked, pass.checked \cup {epic}}
                 /\ \A k, m \in 1..Len(pass'.requests) :
                       pass'.requests[k] = pass'.requests[m] => k = m]_vars

\* A check ended in which the candle request for A failed or returned
\* nothing and B was checked all the same.
C19_Witness ==
    /\ pc = "running"
    /\ pass.requests = <<"A", "B">>
    /\ "A" \notin pass.checked /\ "B" \in pass.checked

\* The steps that call persist_positions(epic): a strategy opened or closed
\* its position, of itself or in the exit check
PersistsChange(epic) ==
    \/ \E direction \in {"LONG", "SHORT"} : StrategyOpen(epic, direction)
    \/ StrategyClose(epic)
    \/ pc = "check" /\ Head(pass.queue) = epic /\ CheckStep("exited")

\* The steps that call persist_positions(): a pass that corrected something
PersistsCorrections == (StartupResume \/ PeriodicResume) /\ pass'.saves = 1

\* C20 as stated: persist_positions(x) adds x to the recently-changed set
\* when x is non-empty and nothing when x is empty, and in both cases leaves
\* on disk a snapshot with exactly one entry per strategy, derived from that
\* strategy's tracker.
C20_PersistAlwaysSaves ==
    [][/\ \A epic \in Instruments :
             PersistsChange(epic) =>
                 /\ recently_changed_instruments' = recently_changed_instruments \cup {epic}
                 /\ SnapshotOnDisk(fs', strategies')
       /\ PersistsCorrections =>
             /\ recently_changed_instruments' \subseteq recently_changed_instruments
             /\ SnapshotOnDisk(fs', strategies')]_vars

\* C20: persist_positions(x) adds x to the recently-changed set when x is
\* non-empty and nothing when x is empty; in a manager that has a journal it
\* then leaves on disk a snapshot with exactly one entry per strategy, derived
\* from that strategy's tracker, and in a manager without a journal it writes
\* nothing.
C20_PersistSavesToJournal ==
    [][/\ \A epic \in Instruments :
             PersistsChange(epic) =>
                 /\ recently_changed_instruments' = recently_changed_instruments \cup {epic}
                 /\ journal # None => SnapshotOnDisk(fs', strategies')
                 /\ journal = None => fs' = fs
       /\ PersistsCorrections =>
             /\ journal # None
             /\ recently_changed_instruments' \subseteq recently_changed_instruments
             /\ SnapshotOnDisk(fs', strategies')]_vars

\* Both strategies opened a position and notified it, outside any pass: both
\* instruments are in the set and the journal holds both positions.
C20_Witness ==
    /\ pc = "running" /\ pass = NoPass /\ journal # None
    /\ recently_changed_instruments = Instruments
    /\ \A i \in Instruments : ~is_flat(strategies[i].position)
    /\ SnapshotOnDisk(fs, strategies)

-----------------------------------------------------------------------------
(* The periodic gate of the ReconciliationManager: the candle counter, the  *)
(* candle-closed handler and should_reconcile.  The pass that the handler   *)
(* starts is the one Spec models from PeriodicBegin on; here it is counted. *)

\* Reconciliation, journal and manager state are not in use
ReconciliationIdle ==
    /\ arg_journal_positions = <<>> /\ arg_broker_positions = <<>>
    /\ arg_managed_instruments = {} /\ ret_result = <<>> /\ returned = FALSE
    /\ fs = [dir |-> FALSE, path |-> NoFile, tmp |-> NoFile]
    /\ JournalIdle
    /\ strategies = <<>> /\ recently_changed_instruments = {}
    /\ pc = "none" /\ pass = <<>> /\ trail = <<>>

_target_period == "15MINUTE"

Timeframes == {"15MINUTE", "HOUR"}

MaxInterval == 3

\* Calls of should_reconcile and candle-closed events in one behaviour
MaxGateCalls == 7

\* calls: should_reconcile calls made; ret: what the last of them returned;
\* events: candle-closed events handled; passes: periodic_reconcile passes
\* the handler started
NoGate == [calls |-> 0, ret |-> None, events |-> 0, passes |-> 0]

GateInit ==
    /\ journal \in {None, Some("positions.json")}
    /\ _enable_event_subscription \in BOOLEAN
    /\ _reconcile_interval \in 1..MaxInterval
    /\ _candle_count = 0
    /\ gate = NoGate
    /\ ReconciliationIdle
    /\ PolicyIdle /\ RunnerIdle /\ TrackerIdle /\ PositionIdle

\* ReconciliationManager._should_reconcile_now
_should_reconcile_now(count) ==
    journal # None /\ count % _reconcile_interval = 0

\* should_reconcile counts the call itself only without event subscription
counted_by_call(subscribed) == IF ~subscribed THEN 1 ELSE 0

\* ReconciliationManager.should_reconcile
should_reconcile ==
    /\ gate.calls + gate.events < MaxGateCalls
    /\ \E count \in {_candle_count + counted_by_call(_enable_event_subscription)} :
          /\ _candle_count' = count
          /\ gate' = [gate EXCEPT !.calls = @ + 1,
                                  !.ret = Some(_should_reconcile_now(count))]
    /\ UNCHANGED <<_enable_event_subscription, _reconcile_interval>>
    /\ UNCHANGED <<positionVars, reconcileVars, fs, journalVars, managerVars, policyVars, runnerVars,
                   trackerVars>>

counted_by_event_any(timeframe) == 1

\* _on_candle_closed returns at once for another timeframe
counted_by_event(timeframe) == IF timeframe = _target_period THEN 1 ELSE 0

\* ReconciliationManager._on_candle_closed, subscribed by __init__ only when
\* event subscription is enabled
_on_candle_closed(timeframe) ==
    /\ _enable_event_subscription
    /\ gate.calls + gate.events < MaxGateCalls
    /\ \E counted \in {counted_by_event(timeframe)} :
       \E count \in {_candle_count + counted} :
          /\ _candle_count' = count
          /\ gate' = [gate EXCEPT
                 !.events = @ + 1,
                 !.passes = IF counted = 1 /\ _should_reconcile_now(count)
                            THEN @ + 1 ELSE @]
    /\ UNCHANGED <<_enable_event_subscription, _reconcile_interval>>
    /\ UNCHANGED <<positionVars, reconcileVars, fs, journalVars, managerVars, policyVars, runnerVars,
                   trackerVars>>

GateNext ==
    \/ should_reconcile
    \/ \E timeframe \in Timeframes : _on_candle_closed(timeframe)

SpecGate == GateInit /\ [][GateNext]_vars

(* Properties of the gate *)

\* C21 as stated: should_reconcile returns true exactly on the calls numbered
\* interval, 2 x interval, ... and false on every other call.
C21_TrueOnEveryIntervalthCall ==
    [][should_reconcile =>
          gate'.ret = Some(gate'.calls % _reconcile_interval = 0)]_vars

\* should_reconcile of a manager with a journal and with event subscription
\* returned true on its first call although the interval is larger than one.
C21_Witness ==
    /\ _enable_event_subscription /\ journal # None
    /\ _reconcile_interval > 1
    /\ gate.calls = 1 /\ gate.ret = Some(TRUE)

\* C22 as stated: the handler counts only the events of the target
\* timeframe and starts a pass exactly on every interval-th of them.
C22_PassOnEveryIntervalthEvent ==
    [][\A timeframe \in Timeframes :
          _on_candle_closed(timeframe) =>
              IF timeframe = _target_period
              THEN /\ _candle_count' = _candle_count + 1
                   /\ gate'.passes = IF _candle_count' % _reconcile_interval = 0
                                     THEN gate.passes + 1 ELSE gate.passes
              ELSE _candle_count' = _candle_count /\ gate'.passes = gate.passes]_vars

\* C22: the handler counts only the events of the target timeframe; in a
\* manager that has a journal it starts a pass exactly on every interval-th
\* of them, and in a manager without a journal it never starts one; events
\* of another timeframe neither advance the counter nor start a pass.
C22_PassOnEveryIntervalthEventWithJournal ==
    [][\A timeframe \in Timeframes :
          _on_candle_closed(timeframe) =>
              IF timeframe = _target_period
              THEN /\ _candle_count' = _candle_count + 1
                   /\ gate'.passes =
                         IF journal # None /\ _candle_count' % _reconcile_interval = 0
                         THEN gate.passes + 1 ELSE gate.passes
              ELSE _candle_count' = _candle_count /\ gate'.passes = gate.passes]_vars

\* Of five handled events three were of the target timeframe; with interval
\* three the third of them started the one pass.
C22_Witness ==
    /\ journal # None /\ _reconcile_interval = 3
    /\ gate.events = 5 /\ _candle_count = 3 /\ gate.passes = 1

-----------------------------------------------------------------------------
(* Risk allocation policies.  A float is modelled by the rational number it *)
(* stands for, a pair <<numerator, denominator>> in lowest terms with a     *)
(* positive denominator: the arithmetic is exact, rounding is left out.     *)
(* A Mapping is a function on its set of keys; the empty map is <<>>.       *)

RECURSIVE Gcd(_, _)
Gcd(a, b) == IF b = 0 THEN a ELSE Gcd(b, a % b)

Rat(n, d) ==
    LET g == Gcd(Abs(n), Abs(d))
        sign == IF d < 0 THEN -1 ELSE 1
    IN  <<(sign * n) \div g, (sign * d) \div g>>

RAdd(a, b) == Rat(a[1] * b[2] + b[1] * a[2], a[2] * b[2])
RSub(a, b) == Rat(a[1] * b[2] - b[1] * a[2], a[2] * b[2])
RMul(a, b) == Rat(a[1] * b[1], a[2] * b[2])
RDiv(a, b) == Rat(a[1] * b[2], a[2] * b[1])
RLess(a, b) == a[1] * b[2] < b[1] * a[2]
RAbs(a) == <<Abs(a[1]), a[2]>>

\* float(k) of an integer
Float(k) == <<k, 1>>

\* sum(...) over a list of floats
RECURSIVE RSum(_)
RSum(xs) == IF xs = <<>> THEN Float(0) ELSE RAdd(Head(xs), RSum(Tail(xs)))

\* [x for x in xs if keep(x)]
RECURSIVE Filter(_, _)
Filter(xs, kept) ==
    IF xs = <<>> THEN <<>>
    ELSE IF Head(xs) \in kept THEN <<Head(xs)>> \o Filter(Tail(xs), kept)
    ELSE Filter(Tail(xs), kept)

Range(xs) == {xs[k] : k \in 1..Len(xs)}

PolicyInstruments == {"A", "B", "C"}

MaxActive == 3

EqualSplitRiskPolicy(budget) ==
    [kind |-> "equal", portfolio_risk_budget |-> budget]

EqualSplit_allocate_whole(p, active_instruments) ==
    [inst \in Range(active_instruments) |-> p.portfolio_risk_budget]

\* EqualSplitRiskPolicy.allocate
EqualSplit_allocate(p, active_instruments) ==
    IF active_instruments = <<>> THEN <<>>
    ELSE LET k == Len(active_instruments)
             per == RDiv(p.portfolio_risk_budget, Float(k))
         IN  [inst \in Range(active_instruments) |-> per]

\* FixedAllocationRiskPolicy.__init__ for a mapping with a positive weight:
\* the positive weights, normalised to sum to one
FixedAllocationRiskPolicy(budget, allocations) ==
    LET positive == {k \in DOMAIN allocations : RLess(Float(0), allocations[k])}
        order == CHOOSE xs \in [1..Cardinality(positive) -> positive] : Range(xs) = positive
        total == RSum([k \in 1..Len(order) |-> allocations[order[k]]])
    IN  [kind |-> "fixed", portfolio_risk_budget |-> budget,
         allocations |-> allocations,
         _base_weights |-> [k \in positive |-> RDiv(allocations[k], total)]]

renormalised_over_all(p, configured_active) == Float(1)

\* sum(self._base_weights[inst] for inst in configured_active)
renormalised_over(p, configured_active) ==
    RSum([k \in 1..Len(configured_active) |-> p._base_weights[configured_active[k]]])

\* FixedAllocationRiskPolicy.allocate
FixedAllocation_allocate(p, active_instruments) ==
    IF active_instruments = <<>> THEN <<>>
    ELSE LET configured_active == Filter(active_instruments, DOMAIN p._base_weights)
         IN  IF configured_active = <<>>
             THEN LET per == RDiv(p.portfolio_risk_budget, Float(Len(active_instruments)))
                  IN  [inst \in Range(active_instruments) |-> per]
             ELSE LET total_weight == renormalised_over(p, configured_active)
                  IN  IF ~RLess(Float(0), total_weight)
                      THEN LET per == RDiv(p.portfolio_risk_budget,
                                           Float(Len(configured_active)))
                           IN  [inst \in Range(configured_active) |-> per]
                      ELSE [inst \in Range(configured_active) |->
                               RMul(RDiv(p._base_weights[inst], total_weight),
                                    p.portfolio_risk_budget)]

\* policy.allocate(active) of the pure policies
allocate(p, active_instruments) ==
    IF p.kind = "equal" THEN EqualSplit_allocate(p, active_instruments)
    ELSE FixedAllocation_allocate(p, active_instruments)

\* The budgets and weight mappings tried: the documented 0.4 / 0.6, and
\* relative weights that do not sum to one, with a zero weight for C
Budgets == {Float(10), Float(3)}

Allocations ==
    {[i \in {"A", "B"} |-> IF i = "A" THEN Rat(2, 5) ELSE Rat(3, 5)],
     [i \in PolicyInstruments |->
         IF i = "A" THEN Float(1) ELSE IF i = "B" THEN Float(3) ELSE Float(0)]}

Policies ==
    {EqualSplitRiskPolicy(b) : b \in Budgets}
    \cup {FixedAllocationRiskPolicy(b, a) : b \in Budgets, a \in Allocations}

PolicyInit ==
    /\ policy \in Policies
    /\ arg_active_instruments \in SeqsUpTo(PolicyInstruments, MaxActive)
    /\ ret_allocation = <<>>
    /\ allocated = FALSE
    /\ journal = <<>>
    /\ ReconciliationIdle
    /\ GateIdle /\ RunnerIdle /\ TrackerIdle /\ PositionIdle

AllocateCall ==
    /\ ~allocated
    /\ ret_allocation' = allocate(policy, arg_active_instruments)
    /\ allocated' = TRUE
    /\ UNCHANGED <<policy, arg_active_instruments>>
    /\ UNCHANGED <<positionVars, reconcileVars, fs, journalVars, managerVars, gateVars, runnerVars,
                   trackerVars>>

SpecPolicy == PolicyInit /\ [][AllocateCall]_vars

(* Properties of the policies *)

Distinct(xs) == \A k, m \in 1..Len(xs) : xs[k] = xs[m] => k = m

\* The sum of the values of a map
RECURSIVE SumValues(_)
SumValues(f) ==
    IF DOMAIN f = {} THEN Float(0)
    ELSE LET k == CHOOSE x \in DOMAIN f : TRUE
         IN  RAdd(f[k], SumValues([x \in DOMAIN f \ {k} |-> f[x]]))

\* C25: EqualSplitRiskPolicy.allocate returns the empty map for an empty
\* list; for a list of k >= 1 instruments the keys are exactly the listed
\* instruments, each with the value budget / k, and for k different
\* instruments the values sum to the budget.
C25_EqualSplit ==
    (allocated /\ policy.kind = "equal") =>
        /\ DOMAIN ret_allocation = Range(arg_active_instruments)
        /\ \A inst \in DOMAIN ret_allocation :
              RMul(ret_allocation[inst], Float(Len(arg_active_instruments)))
                  = policy.portfolio_risk_budget
        /\ (arg_active_instruments # <<>> /\ Distinct(arg_active_instruments)) =>
              SumValues(ret_allocation) = policy.portfolio_risk_budget

\* Three instruments share a budget of 10: each receives 10/3.
C25_Witness ==
    /\ allocated /\ policy = EqualSplitRiskPolicy(Float(10))
    /\ arg_active_instruments = <<"B", "A", "C">>
    /\ ret_allocation["C"] = <<10, 3>>

\* The weight configured for an instrument, as given to the constructor
Configured(p) == {i \in DOMAIN p.allocations : p.allocations[i][1] > 0}

\* C26: FixedAllocationRiskPolicy.allocate returns the empty map for an
\* empty list; when no listed instrument is configured with a positive
\* weight, budget / k for each of the k listed instruments; otherwise a map
\* on the listed configured instruments, each with budget x its weight / the
\* sum of the weights of the listed configured instruments, so that the
\* shares sum to the budget.
C26_FixedAllocation ==
    (allocated /\ policy.kind = "fixed" /\ Distinct(arg_active_instruments)) =>
        \A active \in {Range(arg_active_instruments)} :
        \A configured_active \in {active \cap Configured(policy)} :
            /\ active = {} => ret_allocation = <<>>
            /\ (active # {} /\ configured_active = {}) =>
                  /\ DOMAIN ret_allocation = active
                  /\ \A inst \in active :
                        RMul(ret_allocation[inst], Float(Cardinality(active)))
                            = policy.portfolio_risk_budget
            /\ configured_active # {} =>
                  /\ DOMAIN ret_allocation = configured_active
                  /\ \A inst \in configured_active :
                        RMul(ret_allocation[inst],
                             SumValues([i \in configured_active |-> policy.allocations[i]]))
                            = RMul(policy.portfolio_risk_budget, policy.allocations[inst])
                  /\ SumValues(ret_allocation) = policy.portfolio_risk_budget

\* B is configured and inactive: A, with weight 0.4 of 1.0, receives the
\* whole budget, and the unconfigured C nothing.
C26_Witness ==
    /\ allocated /\ policy.kind = "fixed" /\ policy.portfolio_risk_budget = Float(10)
    /\ DOMAIN policy.allocations = {"A", "B"}
    /\ arg_active_instruments = <<"C", "A">>
    /\ DOMAIN ret_allocation = {"A"} /\ ret_allocation["A"] = Float(10)

-----------------------------------------------------------------------------
(* PortfolioRunner.on_candle_close, for strategies that record what they   *)
(* are asked.  Several calls may be in progress: each waits in update_state *)
(* and in evaluate_signals, and runs without interruption in between.       *)

RunnerOrder == <<"A", "B", "C">>

MaxTasks == 2

\* The fake strategy of the runner's test: regime flag and risk per trade
FakeStrategy(active) == [_active |-> active, _rpt |-> None]

\* One thing a call asked of a strategy
Asked(op, who, ev) == [op |-> op, who |-> who, ev |-> ev]

\* PortfolioRunner._active_instruments
_active_instruments(strats) ==
    Filter(RunnerOrder, {inst \in DOMAIN strats : strats[inst]._active})

_apply_risk_budgets_to_allocated(strats) ==
    LET alloc == allocate(policy, _active_instruments(strats))
    IN  [inst \in DOMAIN strats |->
            IF inst \in DOMAIN alloc
            THEN [strats[inst] EXCEPT !._rpt = Some(alloc[inst])]
            ELSE strats[inst]]

\* PortfolioRunner._apply_risk_budgets
_apply_risk_budgets(strats) ==
    LET alloc == allocate(policy, _active_instruments(strats))
    IN  [inst \in DOMAIN strats |->
            [strats[inst] EXCEPT !._rpt =
                IF inst \in DOMAIN alloc THEN Some(alloc[inst])
                ELSE Some(default_risk_per_trade)]]

\* What _apply_risk_budgets asks of the strategies, in order
BudgetsAsked ==
    [k \in 1..Len(RunnerOrder) |-> Asked("is_regime_active", RunnerOrder[k], "return")]
    \o [k \in 1..Len(RunnerOrder) |-> Asked("set_risk_per_trade", RunnerOrder[k], "return")]

phases_budgets_first == <<"_apply_risk_budgets", "update_state", "evaluate_signals">>

\* The three phases of on_candle_close, in the order of the code
phases == <<"update_state", "_apply_risk_budgets", "evaluate_signals">>

Done == Len(phases) + 1

\* on_candle_close from phase k on, up to its next await or its end
RECURSIVE RunFrom(_, _, _, _)
RunFrom(k, strats, trace, instrument) ==
    IF k > Len(phases) THEN [at |-> Done, strats |-> strats, trace |-> trace]
    ELSE IF phases[k] = "_apply_risk_budgets"
         THEN RunFrom(k + 1, _apply_risk_budgets(strats), trace \o BudgetsAsked, instrument)
    ELSE [at |-> k, strats |-> strats,
          trace |-> Append(trace, Asked(phases[k], instrument, "call"))]

NoTask == [instrument |-> "", at |-> 0, trace |-> <<>>]

RunnerInit ==
    /\ policy \in {p \in Policies : p.portfolio_risk_budget = Float(10)}
    /\ default_risk_per_trade \in {Float(10), Float(2)}
    /\ strategies \in [Range(RunnerOrder) -> {FakeStrategy(a) : a \in BOOLEAN}]
    /\ tasks = [t \in 1..MaxTasks |-> NoTask]
    /\ arg_active_instruments = <<>> /\ ret_allocation = <<>> /\ allocated = FALSE
    /\ arg_journal_positions = <<>> /\ arg_broker_positions = <<>>
    /\ arg_managed_instruments = {} /\ ret_result = <<>> /\ returned = FALSE
    /\ fs = [dir |-> FALSE, path |-> NoFile, tmp |-> NoFile]
    /\ JournalIdle
    /\ journal = <<>> /\ recently_changed_instruments = {}
    /\ pc = "none" /\ pass = <<>> /\ trail = <<>>
    /\ GateIdle /\ TrackerIdle /\ PositionIdle

notRunner ==
    <<positionVars, reconcileVars, fs, journalVars, journal, recently_changed_instruments, pc, pass, trail,
      gateVars, policyVars, default_risk_per_trade, trackerVars>>

\* on_candle_close is called with an event for the instrument
on_candle_close(t, instrument) ==
    /\ tasks[t].at = 0
    /\ \A u \in 1..(t - 1) : tasks[u].at # 0
    /\ IF instrument \notin DOMAIN strategies
       THEN /\ tasks' = [tasks EXCEPT ![t] = [NoTask EXCEPT !.instrument = instrument,
                                                             !.at = Done]]
            /\ UNCHANGED strategies
       ELSE \E run \in {RunFrom(1, strategies, <<>>, instrument)} :
               /\ tasks' = [tasks EXCEPT ![t] = [instrument |-> instrument, at |-> run.at,
                                                  trace |-> run.trace]]
               /\ strategies' = run.strats
    /\ UNCHANGED notRunner

\* The awaited update_state or evaluate_signals raises: so does on_candle_close
Raises(t) ==
    /\ tasks[t].at \in 1..Len(phases)
    /\ tasks' = [tasks EXCEPT ![t].at = Done,
                              ![t].trace = Append(@, Asked(phases[tasks[t].at],
                                                           tasks[t].instrument, "raised"))]
    /\ UNCHANGED <<strategies, notRunner>>

\* The awaited update_state returns, leaving the strategy's regime active or
\* not; on_candle_close goes on
UpdateStateReturns(t, active) ==
    /\ tasks[t].at \in 1..Len(phases) /\ phases[tasks[t].at] = "update_state"
    /\ \E inst \in {tasks[t].instrument} :
       \E run \in {RunFrom(tasks[t].at + 1, [strategies EXCEPT ![inst]._active = active],
                           Append(tasks[t].trace, Asked("update_state", inst, "return")),
                           inst)} :
           /\ tasks' = [tasks EXCEPT ![t].at = run.at, ![t].trace = run.trace]
           /\ strategies' = run.strats
    /\ UNCHANGED notRunner

\* The awaited evaluate_signals returns; on_candle_close goes on
EvaluateSignalsReturns(t) ==
    /\ tasks[t].at \in 1..Len(phases) /\ phases[tasks[t].at] = "evaluate_signals"
    /\ \E inst \in {tasks[t].instrument} :
       \E run \in {RunFrom(tasks[t].at + 1, strategies,
                           Append(tasks[t].trace, Asked("evaluate_signals", inst, "return")),
                           inst)} :
           /\ tasks' = [tasks EXCEPT ![t].at = run.at, ![t].trace = run.trace]
           /\ strategies' = run.strats
    /\ UNCHANGED notRunner

RunnerNext ==
    \/ \E t \in 1..MaxTasks, instrument \in Range(RunnerOrder) \cup {Foreign} :
          on_candle_close(t, instrument)
    \/ \E t \in 1..MaxTasks : Raises(t)
    \/ \E t \in 1..MaxTasks, active \in BOOLEAN : UpdateStateReturns(t, active)
    \/ \E t \in 1..MaxTasks : EvaluateSignalsReturns(t)

SpecRunner == RunnerInit /\ [][RunnerNext]_vars

(* Properties of the runner *)

\* The places of a trace where something is asked
Places(trace, ops, ev) ==
    {k \in 1..Len(trace) : trace[k].op \in ops /\ trace[k].ev = ev}

\* C23: within one on_candle_close, the owner's update_state has returned
\* before any regime flag is read or any risk is set; every strategy's risk
\* has been set, and none is set later, when the owner's evaluate_signals is
\* called; and when update_state raised, no flag was read, no risk was set
\* and evaluate_signals was never called.
C23_UpdateThenBudgetsThenSignals ==
    \A t \in 1..MaxTasks :
    \A trace \in {tasks[t].trace}, owner \in {tasks[t].instrument} :
        /\ \A k \in Places(trace, {"is_regime_active", "set_risk_per_trade"}, "return") :
              \E j \in Places(trace, {"update_state"}, "return") :
                  j < k /\ trace[j].who = owner
        /\ \A k \in Places(trace, {"evaluate_signals"}, "call") :
              /\ trace[k].who = owner
              /\ \A inst \in DOMAIN strategies :
                    \E j \in Places(trace, {"set_risk_per_trade"}, "return") :
                        j < k /\ trace[j].who = inst
              /\ \A j \in Places(trace, {"set_risk_per_trade"}, "return") : j < k
        /\ Places(trace, {"update_state"}, "raised") # {} =>
              Places(trace, {"is_regime_active", "set_risk_per_trade"}, "return")
                 \cup Places(trace, {"evaluate_signals"}, "call") = {}

\* One call went through its three phases while, of another call, the
\* update_state raised.
C23_Witness ==
    \E t, u \in 1..MaxTasks :
        /\ tasks[t].at = Done /\ Places(tasks[t].trace, {"evaluate_signals"}, "return") # {}
        /\ tasks[u].at = Done /\ Places(tasks[u].trace, {"update_state"}, "raised") # {}

\* The call of task t passes from update_state to the budgets in this step
BudgetsApplied(t) ==
    /\ Places(tasks[t].trace, {"set_risk_per_trade"}, "return") = {}
    /\ Places(tasks'[t].trace, {"set_risk_per_trade"}, "return") # {}

\* Only the owner is asked to update its state and to evaluate signals, and
\* an event for an unmanaged instrument asks nothing of any strategy
OnlyOwnerProcesses ==
    \A t \in 1..MaxTasks :
        /\ \A k \in 1..Len(tasks[t].trace) :
              tasks[t].trace[k].op \in {"update_state", "evaluate_signals"} =>
                  tasks[t].trace[k].who = tasks[t].instrument
        /\ tasks[t].instrument \notin DOMAIN strategies => tasks[t].trace = <<>>

-----------------------------------------------------------------------------
(* WeightedRollingTracker: the rolling windows, the decay weighting and the *)
(* cached metrics, and the PerformanceWeightedRiskPolicy that reads them.   *)
(* A trade is [instrument, pnl, entry_ts]; entry_ts numbers the trades in   *)
(* the order they are ingested.                                             *)

window_size == 3
recompute_interval == 2
min_trades_required == 2

\* Trades ingested in one behaviour, and in one update_from_trades call
MaxTrades == 4
MaxBatch == 2

\* Length of the lists given to _apply_decay_weights on its own
MaxDecayTrades == 7

TrackerInstruments == {"A", "B"}

Pnls == {Float(-1), Float(2)}

\* The default (0.60, 0.30, 0.10) and another triple that sums to one
DefaultDecayWeights == <<Rat(3, 5), Rat(3, 10), Rat(1, 10)>>

DecayWeights == {DefaultDecayWeights, <<Rat(1, 2), Rat(3, 10), Rat(1, 5)>>}

add_trade_keep_oldest(trades, trade) ==
    IF Len(trades) >= window_size THEN trades ELSE Append(trades, trade)

\* InstrumentWindow.add_trade, for max_size = window_size
add_trade(trades, trade) ==
    IF Len(trades) >= window_size
    THEN Append(Tail(trades), trade)
    ELSE Append(trades, trade)

\* update_from_trades' loop: each trade into the window of its instrument
RECURSIVE AddAll(_, _)
AddAll(windows, trades) ==
    IF trades = <<>> THEN windows
    ELSE LET trade == Head(trades)
             instrument == trade.instrument
             opened == IF instrument \in DOMAIN windows THEN windows
                       ELSE [i \in DOMAIN windows \cup {instrument} |->
                                IF i = instrument THEN <<>> ELSE windows[i]]
         IN  AddAll([opened EXCEPT ![instrument] = add_trade(@, trade)], Tail(trades))

old_size_tight(n) == n \div 3

\* old_size and mid_size of _apply_decay_weights
old_size(n) == (n \div 3) + (IF n % 3 > 0 THEN 1 ELSE 0)
mid_size(n) == (n \div 3) + (IF n % 3 > 1 THEN 1 ELSE 0)

\* WeightedRollingTracker._apply_decay_weights (i counts from 1 here)
_apply_decay_weights(trades, weights) ==
    LET n == Len(trades)
        old_end == old_size(n)
        mid_end == old_end + mid_size(n)
    IN  [i \in 1..n |->
            RMul(trades[i].pnl,
                 IF i <= old_end THEN weights[3]
                 ELSE IF i <= mid_end THEN weights[2]
                 ELSE weights[1])]

\* WeightedRollingTracker._empty_metrics
_empty_metrics ==
    [return_to_risk_ratio |-> Float(0), total_trades |-> 0, weighted_pnl |-> Float(0)]

\* The metrics compute_metrics derives from one window
WindowMetrics(trades) ==
    IF trades = <<>> THEN _empty_metrics
    ELSE LET weighted_pnls == _apply_decay_weights(trades, decay_weights)
             total_weighted_pnl == RSum(weighted_pnls)
             total_weighted_risk ==
                 RSum([k \in 1..Len(weighted_pnls) |-> RAbs(weighted_pnls[k])])
         IN  [return_to_risk_ratio |->
                  IF RLess(Float(0), total_weighted_risk)
                  THEN RDiv(total_weighted_pnl, total_weighted_risk) ELSE Float(0),
              total_trades |-> Len(trades),
              weighted_pnl |-> total_weighted_pnl]

need_recompute_always(cached, instruments) == TRUE

\* compute_metrics' test: no cache, or a requested instrument is not in it
need_recompute(cached, instruments) ==
    cached = None \/ \E inst \in Range(instruments) : inst \notin DOMAIN Val(cached)

\* WeightedRollingTracker.compute_metrics: what it returns, the cache it
\* leaves and whether it computed
compute_metrics(instruments) ==
    IF ~need_recompute(_cached_metrics, instruments)
    THEN [recomputed |-> FALSE, cached |-> _cached_metrics,
          metrics |-> [inst \in Range(instruments) |-> Val(_cached_metrics)[inst]]]
    ELSE LET all_metrics == [i \in DOMAIN _windows |-> WindowMetrics(_windows[i])]
         IN  [recomputed |-> TRUE, cached |-> Some(all_metrics),
              metrics |-> [inst \in Range(instruments) |->
                              IF inst \in DOMAIN all_metrics THEN all_metrics[inst]
                              ELSE _empty_metrics]]

PerformanceWeightedRiskPolicy(budget, pct) ==
    [kind |-> "performance", portfolio_risk_budget |-> budget,
     min_allocation_pct |-> pct, min_trades_required |-> min_trades_required]

RMax(a, b) == IF RLess(a, b) THEN b ELSE a

remaining_all(p, k) == p.portfolio_risk_budget

\* remaining = budget - min_per_instrument * k
remaining_after_reserve(p, k) ==
    RSub(p.portfolio_risk_budget,
         RMul(RMul(p.portfolio_risk_budget, p.min_allocation_pct), Float(k)))

\* PerformanceWeightedRiskPolicy.allocate, given what compute_metrics returned
PerformanceWeighted_allocate(p, active_instruments, metrics) ==
    LET k == Len(active_instruments)
        per == RDiv(p.portfolio_risk_budget, Float(k))
        equal_split == [inst \in Range(active_instruments) |-> per]
        insufficient_data ==
            {inst \in Range(active_instruments) :
                metrics[inst].total_trades < p.min_trades_required}
        scores == [inst \in Range(active_instruments) |->
                      RMax(Float(0), metrics[inst].return_to_risk_ratio)]
        total_score == SumValues(scores)
        min_per_instrument == RMul(p.portfolio_risk_budget, p.min_allocation_pct)
        remaining == remaining_after_reserve(p, k)
    IN  IF insufficient_data # {} THEN equal_split
        ELSE IF ~RLess(Float(0), total_score) THEN equal_split
        ELSE IF RLess(remaining, Float(0)) THEN equal_split
        ELSE [inst \in Range(active_instruments) |->
                 RAdd(min_per_instrument,
                      RMul(remaining, RDiv(scores[inst], total_score)))]

NoCall == [op |-> "none", recomputed |-> FALSE, metrics |-> <<>>]

TrackerInit ==
    /\ decay_weights = DefaultDecayWeights
    /\ _windows = <<>>
    /\ _trade_count = 0
    /\ _cached_metrics = None
    /\ history = [i \in TrackerInstruments |-> <<>>]
    /\ since_computation = 0
    /\ last_computed = None
    /\ call = NoCall
    /\ arg_trades = <<>> /\ ret_weighted_pnls = <<>>
    /\ policy \in {PerformanceWeightedRiskPolicy(Float(10), pct) :
                      pct \in {Rat(1, 10), Rat(3, 5)}}
    /\ arg_active_instruments = <<>> /\ ret_allocation = <<>> /\ allocated = FALSE
    /\ journal = <<>>
    /\ ReconciliationIdle
    /\ GateIdle /\ RunnerIdle /\ PositionIdle

notTracker ==
    <<positionVars, reconcileVars, fs, journalVars, managerVars, gateVars, policy, allocated,
      runnerVars, decay_weights, arg_trades, ret_weighted_pnls>>

Ingested == Len(history["A"]) + Len(history["B"])

\* The lists of n trades update_from_trades may be given next
BatchesOf(n) ==
    {[k \in 1..n |-> [instrument |-> is[k], pnl |-> ps[k], entry_ts |-> Ingested + k]] :
        is \in [1..n -> TrackerInstruments], ps \in [1..n -> Pnls]}

Batches ==
    UNION {BatchesOf(n) : n \in {m \in 1..MaxBatch : Ingested + m <= MaxTrades}}

RECURSIVE Ingest(_, _)
Ingest(h, trades) ==
    IF trades = <<>> THEN h
    ELSE Ingest([h EXCEPT ![Head(trades).instrument] = Append(@, Head(trades))],
                Tail(trades))

\* WeightedRollingTracker.update_from_trades
update_from_trades(trades) ==
    /\ _windows' = AddAll(_windows, trades)
    /\ \E count \in {_trade_count + Len(trades)} :
          IF count >= recompute_interval
          THEN _cached_metrics' = None /\ _trade_count' = 0
          ELSE _cached_metrics' = _cached_metrics /\ _trade_count' = count
    /\ history' = Ingest(history, trades)
    /\ since_computation' = since_computation + Len(trades)
    /\ call' = [NoCall EXCEPT !.op = "update_from_trades"]
    /\ UNCHANGED <<last_computed, arg_active_instruments, ret_allocation, notTracker>>

Queries == {<<>>, <<"A">>, <<"B">>, <<"A", "B">>}

\* tracker.compute_metrics(instruments), called on its own
ComputeMetricsCall(instruments) ==
    /\ \E computed \in {compute_metrics(instruments)} :
          /\ _cached_metrics' = computed.cached
          /\ since_computation' = IF computed.recomputed THEN 0 ELSE since_computation
          /\ last_computed' = IF computed.recomputed THEN Some(DOMAIN _windows)
                              ELSE last_computed
          /\ call' = [op |-> "compute_metrics", recomputed |-> computed.recomputed,
                      metrics |-> computed.metrics]
    /\ arg_active_instruments' = instruments
    /\ ret_allocation' = <<>>
    /\ UNCHANGED <<_windows, _trade_count, history, notTracker>>

\* PerformanceWeightedRiskPolicy.allocate(active_instruments)
PerformanceAllocateCall(active_instruments) ==
    /\ IF active_instruments = <<>>
       THEN /\ ret_allocation' = <<>>
            /\ call' = [NoCall EXCEPT !.op = "allocate"]
            /\ UNCHANGED <<_cached_metrics, since_computation, last_computed>>
       ELSE \E computed \in {compute_metrics(active_instruments)} :
               /\ _cached_metrics' = computed.cached
               /\ since_computation' =
                     IF computed.recomputed THEN 0 ELSE since_computation
               /\ last_computed' = IF computed.recomputed THEN Some(DOMAIN _windows)
                                   ELSE last_computed
               /\ call' = [op |-> "allocate", recomputed |-> computed.recomputed,
                           metrics |-> computed.metrics]
               /\ ret_allocation' =
                     PerformanceWeighted_allocate(policy, active_instruments,
                                                  computed.metrics)
    /\ arg_active_instruments' = active_instruments
    /\ UNCHANGED <<_windows, _trade_count, history, notTracker>>

TrackerNext ==
    \/ \E trades \in Batches : update_from_trades(trades)
    \/ \E instruments \in Queries : ComputeMetricsCall(instruments)
    \/ \E active_instruments \in Queries : PerformanceAllocateCall(active_instruments)

SpecTracker == TrackerInit /\ [][TrackerNext]_vars

\* _apply_decay_weights on its own: lists of up to MaxDecayTrades trades
DecayInit ==
    /\ decay_weights \in DecayWeights
    /\ arg_trades \in
          UNION {{[k \in 1..n |-> [instrument |-> "A", pnl |-> ps[k], entry_ts |-> k]] :
                    ps \in [1..n -> Pnls]} : n \in 0..MaxDecayTrades}
    /\ ret_weighted_pnls = None
    /\ _windows = <<>> /\ _trade_count = 0 /\ _cached_metrics = <<>>
    /\ history = <<>> /\ since_computation = 0 /\ last_computed = <<>>
    /\ call = <<>>
    /\ journal = <<>>
    /\ ReconciliationIdle
    /\ GateIdle /\ PolicyIdle /\ RunnerIdle /\ PositionIdle

ApplyDecayCall ==
    /\ ret_weighted_pnls = None
    /\ ret_weighted_pnls' = Some(_apply_decay_weights(arg_trades, decay_weights))
    /\ UNCHANGED <<decay_weights, arg_trades, _windows, _trade_count, _cached_metrics,
                   history, since_computation, last_computed, call>>
    /\ UNCHANGED <<positionVars, reconcileVars, fs, journalVars, managerVars, gateVars, policyVars,
                   runnerVars>>

SpecDecay == DecayInit /\ [][ApplyDecayCall]_vars

(* Properties of the tracker and of the performance-weighted policy *)

\* The last min(n, size) elements of a sequence
LastOf(xs, size) ==
    IF Len(xs) <= size THEN xs ELSE SubSeq(xs, Len(xs) - size + 1, Len(xs))

\* C28: each window holds at most window_size trades, and they are the most
\* recently ingested trades of its instrument, in the order of arrival; an
\* instrument has a window as soon as a trade was ingested for it.
C28_WindowHoldsMostRecent ==
    \A i \in TrackerInstruments :
        IF history[i] = <<>> THEN i \notin DOMAIN _windows
        ELSE /\ i \in DOMAIN _windows
             /\ Len(_windows[i]) <= window_size
             /\ _windows[i] = LastOf(history[i], window_size)

\* Four trades were ingested for A: its full window has lost the oldest.
C28_Witness ==
    /\ Len(history["A"]) = window_size + 1
    /\ Len(_windows["A"]) = window_size
    /\ _windows["A"][1] = history["A"][2]

\* C29: for n trades oldest first, _apply_decay_weights returns n values in
\* the order of the trades: the first floor(n/3) + (1 if n mod 3 > 0) are
\* the pnl times the oldest weight, the next floor(n/3) + (1 if n mod 3 > 1)
\* times the middle weight and the last floor(n/3) times the recent weight;
\* the recent group is never the largest.
C29_DecayByThirds ==
    ret_weighted_pnls # None =>
        \A weighted \in {Val(ret_weighted_pnls)}, n \in {Len(arg_trades)} :
        \A oldest \in {(n \div 3) + (IF n % 3 > 0 THEN 1 ELSE 0)},
           middle \in {(n \div 3) + (IF n % 3 > 1 THEN 1 ELSE 0)} :
            /\ Len(weighted) = n
            /\ \A k \in 1..n :
                  weighted[k] =
                      RMul(arg_trades[k].pnl,
                           IF k <= oldest THEN decay_weights[3]
                           ELSE IF k <= oldest + middle THEN decay_weights[2]
                           ELSE decay_weights[1])
            /\ n - oldest - middle = n \div 3
            /\ n - oldest - middle <= middle /\ middle <= oldest

\* Seven trades of pnl 2 under (0.6, 0.3, 0.1): three old, two middle and
\* two recent.
C29_Witness ==
    /\ ret_weighted_pnls # None /\ decay_weights = DefaultDecayWeights
    /\ Len(arg_trades) = 7 /\ \A k \in 1..7 : arg_trades[k].pnl = Float(2)
    /\ Val(ret_weighted_pnls) =
          <<Rat(1, 5), Rat(1, 5), Rat(1, 5), Rat(3, 5), Rat(3, 5), Rat(6, 5), Rat(6, 5)>>

\* PerformanceWeightedRiskPolicy.allocate has just returned for a list
PerformanceAllocated == call.op = "allocate" /\ arg_active_instruments # <<>>

\* C27: with the metrics compute_metrics returned for the k active
\* instruments, allocate gives budget / k to each when one of them has fewer
\* than min_trades_required trades, when the scores clipped at 0 sum to 0 or
\* when k x min_allocation_pct x budget exceeds the budget; in every other
\* case each receives min_allocation_pct x budget plus the rest of the budget
\* times its clipped score over the total clipped score, which is never
\* below the reserve, and the allocations sum to the budget.
C27_PerformanceWeighted ==
    PerformanceAllocated =>
        \A active \in {Range(arg_active_instruments)}, budget \in {policy.portfolio_risk_budget} :
        \A k \in {Cardinality(active)}, reserve \in {RMul(policy.min_allocation_pct, budget)} :
        \A clipped \in {[i \in active |->
                           IF call.metrics[i].return_to_risk_ratio[1] > 0
                           THEN call.metrics[i].return_to_risk_ratio ELSE Float(0)]} :
        \A total \in {SumValues(clipped)} :
            /\ DOMAIN ret_allocation = active
            /\ IF \/ \E i \in active : call.metrics[i].total_trades < min_trades_required
                  \/ total = Float(0)
                  \/ RLess(budget, RMul(Float(k), reserve))
               THEN \A i \in active : RMul(ret_allocation[i], Float(k)) = budget
               ELSE /\ \A i \in active :
                         /\ RMul(RSub(ret_allocation[i], reserve), total)
                               = RMul(RSub(budget, RMul(Float(k), reserve)), clipped[i])
                         /\ ~RLess(ret_allocation[i], reserve)
                    /\ SumValues(ret_allocation) = budget

\* A and B both have the trades required; B's score is positive and A's is
\* clipped to zero, so A holds the reserve of 1 and B the other 9 of 10.
C27_Witness ==
    /\ PerformanceAllocated /\ policy.min_allocation_pct = Rat(1, 10)
    /\ arg_active_instruments = <<"A", "B">>
    /\ call.metrics["A"].total_trades >= min_trades_required
    /\ call.metrics["B"].total_trades >= min_trades_required
    /\ RLess(call.metrics["A"].return_to_risk_ratio, Float(0))
    /\ ret_allocation = [i \in {"A", "B"} |-> IF i = "A" THEN Float(1) ELSE Float(9)]

\* A step of compute_metrics, called on its own or by the policy
Computes ==
    /\ call'.op \in {"compute_metrics", "allocate"}
    /\ call'.op = "allocate" => arg_active_instruments' # <<>>

\* What a computation leaves in the cache: for every window its number of
\* trades and its weighted pnl
FreshFrom(cached, windows) ==
    /\ cached # None
    /\ DOMAIN Val(cached) = DOMAIN windows
    /\ \A i \in DOMAIN windows :
          /\ Val(cached)[i].total_trades = Len(windows[i])
          /\ Val(cached)[i].weighted_pnl =
                RSum(_apply_decay_weights(windows[i], decay_weights))

\* The metrics returned are those of the cache for every queried instrument
\* that the cache holds
AnswersFrom(cached) ==
    \A i \in Range(arg_active_instruments') :
        i \in DOMAIN Val(cached) => call'.metrics[i] = Val(cached)[i]

\* C30 as stated: once the metrics have been computed, compute_metrics
\* recomputes them from the current windows when at least recompute_interval
\* trades were ingested since that computation or a queried instrument is
\* not among the metrics computed, and in no other case.
C30_RecomputeAfterIntervalSinceComputation ==
    [][(Computes /\ last_computed # None) =>
          (call'.recomputed <=>
              \/ since_computation >= recompute_interval
              \/ \E i \in Range(arg_active_instruments') : i \notin Val(last_computed))]_vars

\* C30: compute_metrics recomputes from the current windows when the cache
\* is empty (never filled, or invalidated) or a queried instrument is not in
\* it, and in every other case answers from the cache and leaves it;
\* update_from_trades empties the cache when the trades ingested since it
\* last did so, or since the start, reach recompute_interval, whether or not
\* the metrics were computed in between, and otherwise leaves it.
C30_RecomputeWhenInvalidatedOrAbsent ==
    [][/\ Computes =>
             /\ _trade_count' = _trade_count
             /\ IF \/ _cached_metrics = None
                   \/ \E i \in Range(arg_active_instruments') :
                         i \notin DOMAIN Val(_cached_metrics)
                THEN /\ call'.recomputed
                     /\ FreshFrom(_cached_metrics', _windows)
                     /\ AnswersFrom(_cached_metrics')
                ELSE /\ ~call'.recomputed
                     /\ _cached_metrics' = _cached_metrics
                     /\ AnswersFrom(_cached_metrics)
       /\ call'.op = "update_from_trades" =>
             \A added \in {Ingested' - Ingested} :
                 IF _trade_count + added >= recompute_interval
                 THEN _cached_metrics' = None /\ _trade_count' = 0
                 ELSE /\ _cached_metrics' = _cached_metrics
                      /\ _trade_count' = _trade_count + added]_vars

\* compute_metrics answered for A from a cache that is one trade behind A's
\* window.
C30_Witness ==
    /\ call.op = "compute_metrics" /\ ~call.recomputed
    /\ arg_active_instruments = <<"A">>
    /\ since_computation = 1
    /\ call.metrics["A"].total_trades + 1 = Len(_windows["A"])

-----------------------------------------------------------------------------
(* Properties of reconcile's result as a list *)

\* The place of an instrument in the ascending order of instrument names
Rank(i) == CHOOSE k \in 1..Len(InstrumentOrder) : InstrumentOrder[k] = i

\* C39: the result of reconcile holds exactly one entry for each managed
\* instrument, in ascending instrument order, and no other entry, whatever
\* the broker lists; and the broker side of an entry is that of the last
\* position the broker lists for the instrument (null when it lists none).
C39_OneEntryPerManagedInstrument ==
    returned =>
        /\ Len(ret_result) = Cardinality(arg_managed_instruments)
        /\ \A k \in 1..Len(ret_result) :
              /\ ret_result[k].instrument \in arg_managed_instruments
              /\ \A m \in 1..Len(ret_result) :
                    k < m => Rank(ret_result[k].instrument) < Rank(ret_result[m].instrument)
              /\ \A i \in {ret_result[k].instrument} :
                    IF HasBroker(i)
                    THEN /\ ret_result[k].broker_direction = Some(LastBroker(i).direction)
                         /\ ret_result[k].broker_size = Some(LastBroker(i).size)
                    ELSE /\ ret_result[k].broker_direction = None
                         /\ ret_result[k].broker_size = None

\* The broker lists A twice with different sizes and B is managed too: two
\* entries, A's compared with the second position listed.
C39_Witness ==
    /\ returned
    /\ arg_managed_instruments = {"A", "B"}
    /\ Len(arg_broker_positions) = 2
    /\ arg_broker_positions[1].instrument = "A" /\ arg_broker_positions[2].instrument = "A"
    /\ arg_broker_positions[1].size # arg_broker_positions[2].size
    /\ Len(ret_result) = 2
    /\ ret_result[1].instrument = "A" /\ ret_result[2].instrument = "B"
    /\ ret_result[1].broker_size = Some(arg_broker_positions[2].size)

-----------------------------------------------------------------------------
(* Properties of the manager: what a pass classifies and what it logs *)

\* The pass logged a record of the given level about instrument i
Logged(log, level, i) == \E rec \in log : rec.level = level /\ rec.instrument = i

\* C33 as stated: whenever a pass, at startup or periodic, classifies an
\* instrument as FAILED_EXIT, it emits a record of level CRITICAL for the
\* instrument and opens the instrument's tracker from the broker's position.
C33_FailedExitCriticalAndAdopted ==
    [][(StartupResume \/ PeriodicResume) =>
          \A result \in {IF pc = "boot_fetched" THEN StartupResult ELSE PeriodicResult} :
          \A i \in Classified(result, {"failed_exit"}) :
              /\ Logged(pass'.log, "CRITICAL", i)
              /\ strategies'[i].position =
                    BrokerTracker(BrokerHeld(pass.broker_positions, i))]_vars

\* C33: a pass that classifies an instrument as FAILED_EXIT opens the
\* instrument's tracker from the broker's position; reconcile_on_startup
\* emits a record of level CRITICAL for the instrument, periodic_reconcile
\* emits a record of level WARNING for it and no record of level CRITICAL.
C33_FailedExitAdoptedCriticalAtStartup ==
    [][/\ StartupResume =>
             \A i \in Classified(StartupResult, {"failed_exit"}) :
                 /\ Logged(pass'.log, "CRITICAL", i)
                 /\ strategies'[i].position =
                       BrokerTracker(BrokerHeld(pass.broker_positions, i))
       /\ PeriodicResume =>
             /\ \A i \in Classified(PeriodicResult, {"failed_exit"}) :
                   /\ Logged(pass'.log, "WARNING", i)
                   /\ strategies'[i].position =
                         BrokerTracker(BrokerHeld(pass.broker_positions, i))
             /\ \A rec \in pass'.log : rec.level = "WARNING"]_vars

\* A startup pass found the journal flat for A and a position at the broker:
\* it logged the failed exit at level CRITICAL and A's tracker holds the
\* position.
C33_Witness ==
    /\ pc = "started" /\ pass.kind = "startup" /\ pass.fetch = "ok"
    /\ LogRecord("CRITICAL", "A", "failed_exit") \in pass.log
    /\ strategies["A"].position =
          Tracker(Some("LONG"), Some(MinSize), Some(BrokerPrice), 0, 0)

\* C37: a periodic pass reports no instrument as ORPHAN_BROKER, and every
\* instrument it reconciles whose tracker is flat while the broker holds a
\* position is reported as FAILED_EXIT.
C37_PeriodicNeverOrphan ==
    [][PeriodicResume =>
          /\ \A rec \in pass'.log : rec.discrepancy # "orphan_broker"
          /\ \A i \in Instruments \ recently_changed_instruments :
                (is_flat(strategies[i].position) /\ BrokerHolds(pass.broker_positions, i))
                    => LogRecord("WARNING", i, "failed_exit") \in pass'.log]_vars

\* A periodic pass found B's tracker flat and a position for B at the broker
\* and reported a failed exit; it adopted the position.
C37_Witness ==
    /\ pass.kind = "periodic" /\ pass.fetch = "ok"
    /\ LogRecord("WARNING", "B", "failed_exit") \in pass.log
    /\ "B" \in pass.restored
    /\ ~is_flat(strategies["B"].position)

\* C38: reconcile_on_startup with a successful fetch, starting from flat
\* trackers, leaves the tracker of a managed strategy non-flat exactly when
\* the broker's list holds a position for its instrument, and returns the
\* set of those instruments.
C38_StartupNonFlatIffBrokerHolds ==
    [][(StartupResume /\ \A i \in Instruments : is_flat(strategies[i].position)) =>
          \A held \in {{i \in Instruments : BrokerHolds(pass.broker_positions, i)}} :
              /\ \A i \in Instruments : ~is_flat(strategies'[i].position) <=> i \in held
              /\ pass'.restored = held]_vars

\* The journal held a position for A that the broker does not list, the
\* broker lists one for B: A stays flat, B holds a position and the pass
\* returned {B}.
C38_Witness ==
    /\ pc = "started" /\ pass.kind = "startup" /\ pass.fetch = "ok"
    /\ LogRecord("WARNING", "A", "phantom_local") \in pass.log
    /\ is_flat(strategies["A"].position)
    /\ ~is_flat(strategies["B"].position)
    /\ pass.restored = {"B"}

-----------------------------------------------------------------------------
(* Properties of the manager built without a journal, and of its trackers *)

\* A step of a strategy's own task, or the process starting again
StrategyStep ==
    \/ \E epic \in Instruments, direction \in {"LONG", "SHORT"} : StrategyOpen(epic, direction)
    \/ \E epic \in Instruments : StrategyClose(epic) \/ StrategyBar(epic)
    \/ Restart

\* C40: in a manager built without a journal, reconcile_on_startup returns
\* the empty set without asking the broker and without touching a tracker,
\* no periodic pass ever starts and the broker's positions are never
\* fetched, so that only the strategies themselves change a tracker.
C40_NoJournalNoReconciliation ==
    [][journal = None =>
          /\ (pc = "boot" /\ pc' # "boot") =>
                /\ pc' = "started" /\ pass'.kind = "startup"
                /\ pass'.fetch = "none" /\ pass'.restored = {}
                /\ strategies' = strategies
          /\ pass'.kind # "periodic"
          /\ pass'.fetch = "none" /\ pass'.broker_positions = <<>>
          /\ strategies' # strategies => StrategyStep]_vars

\* A manager without a journal is running, a bar has closed on the position
\* that A's strategy opened, and no pass was made after the startup.
C40_Witness ==
    /\ journal = None /\ pc = "running"
    /\ strategies["A"].position.direction = Some("LONG")
    /\ strategies["A"].position.bars_held = MaxBars
    /\ pass = NoPass

\* C31: the tracker of every strategy has a null direction exactly when it
\* has a null size and exactly when it has a null entry price, in every
\* state that open, reset, update_mfe and the corrections of the startup
\* and periodic passes lead to.
C31_FlatFieldsTogether ==
    \A i \in DOMAIN strategies :
        /\ strategies[i].position.direction = None <=> strategies[i].position.size = None
        /\ strategies[i].position.size = None <=> strategies[i].position.entry_price = None

\* A periodic pass corrected the size of the position A's strategy had
\* opened: the tracker keeps its direction and entry price and holds the
\* broker's size.
C31_Witness ==
    /\ pass.kind = "periodic" /\ pass.fetch = "ok"
    /\ LogRecord("WARNING", "A", "size_mismatch") \in pass.log
    /\ strategies["A"].position.direction # None
    /\ strategies["A"].position.size = Some(1500000)
    /\ strategies["A"].position.entry_price = Some(StrategyPrice)

-----------------------------------------------------------------------------
(* SpecPosition: one PositionTracker and the calls of its owner *)

\* Entry prices and candle extremes, in millionths
PositionPrices == {98000000, 100000000, 101000000, 103000000}

PositionCandles ==
    {c \in [high : PositionPrices, low : PositionPrices] : c.low <= c.high}

\* Most bars the owner counts on a position
MaxBarsHeld == 2

PositionCall(op, direction, size, entry_price, candle) ==
    [op |-> op, direction |-> direction, size |-> size, entry_price |-> entry_price,
     candle |-> candle]

\* PositionTracker()
PositionInit ==
    /\ position_tracker = FlatTracker
    /\ position_call = PositionCall("__init__", None, None, None, None)
    /\ ReconciliationIdle
    /\ journal = <<>>
    /\ PortfolioIdle

notPosition == <<reconcileVars, fs, journalVars, managerVars, portfolioVars>>

OpenCall(direction, size, entry_price) ==
    /\ position_tracker' = open(position_tracker, direction, size, entry_price)
    /\ position_call' = PositionCall("open", Some(direction), Some(size),
                                     Some(entry_price), None)
    /\ UNCHANGED notPosition

ResetCall ==
    /\ position_tracker' = reset(position_tracker)
    /\ position_call' = PositionCall("reset", None, None, None, None)
    /\ UNCHANGED notPosition

UpdateMfeCall(candle) ==
    /\ position_tracker' = update_mfe(position_tracker, candle)
    /\ position_call' = PositionCall("update_mfe", None, None, None, Some(candle))
    /\ UNCHANGED notPosition

\* The owner counts a bar on its open position: position.bars_held += 1
BarCounted ==
    /\ ~is_flat(position_tracker)
    /\ position_tracker.bars_held < MaxBarsHeld
    /\ position_tracker' = [position_tracker EXCEPT !.bars_held = @ + 1]
    /\ position_call' = PositionCall("bars_held", None, None, None, None)
    /\ UNCHANGED notPosition

PositionNext ==
    \/ \E direction \in {"LONG", "SHORT"}, entry_price \in {100000000, 101000000} :
          OpenCall(direction, MinSize, entry_price)
    \/ ResetCall
    \/ \E candle \in PositionCandles : UpdateMfeCall(candle)
    \/ BarCounted

SpecPosition == PositionInit /\ [][PositionNext]_vars

\* C32: open and reset leave bars held and MFE at 0, open leaving the
\* position it was called with whatever the tracker held; update_mfe never
\* lowers MFE and touches no other field, and on a flat tracker it changes
\* nothing.
C32_MfeResetAndMonotonic ==
    [][/\ position_call'.op = "open" =>
             position_tracker' = [direction |-> position_call'.direction,
                                  size |-> position_call'.size,
                                  entry_price |-> position_call'.entry_price,
                                  bars_held |-> 0, mfe_points |-> 0]
       /\ position_call'.op = "reset" =>
             /\ position_tracker'.bars_held = 0 /\ position_tracker'.mfe_points = 0
             /\ position_tracker'.direction = None
       /\ position_call'.op = "update_mfe" =>
             /\ position_tracker'.mfe_points >= position_tracker.mfe_points
             /\ position_tracker' = [position_tracker EXCEPT
                                        !.mfe_points = position_tracker'.mfe_points]
             /\ position_tracker.direction = None => position_tracker' = position_tracker
      ]_vars

\* A long position entered at 100 had reached an MFE of 3 and then saw a
\* candle whose high is below the entry: the MFE is still 3, after two bars.
C32_Witness ==
    /\ position_call.op = "update_mfe"
    /\ position_tracker.direction = Some("LONG")
    /\ position_tracker.entry_price = Some(100000000)
    /\ Val(position_call.candle).high = 98000000
    /\ position_tracker.mfe_points = 3000000
    /\ position_tracker.bars_held = 2


\* ---------------------------------------------------------------------------
\* The recently-changed set across successive periodic passes (SpecPasses)
\* ---------------------------------------------------------------------------

\* The tracker of i after the step is flat exactly when broker_positions
\* holds nothing for i, and otherwise has its direction and its size within
\* the tolerance.
ReconciledTo(broker_positions, i) ==
    \A t \in {strategies'[i].position} :
        /\ is_flat(t) <=> ~BrokerHolds(broker_positions, i)
        /\ ~is_flat(t) =>
              /\ TrackerSide(t) = BrokerHeld(broker_positions, i).direction
              /\ Abs(Val(t.size) - BrokerHeld(broker_positions, i).size) <= SizeTolerance

\* C34: an instrument that a periodic pass skipped because it was recently
\* changed, and for which no position change has been notified since, is not
\* skipped by the next pass whose fetch succeeds: that pass reconciles it, so
\* its tracker is flat exactly when the broker holds nothing for it and
\* otherwise has the broker's direction and size.
C34_SkippedForOnePassOnly ==
    [][PeriodicResume =>
        \A i \in trail.carried :
            /\ i \notin pass'.skipped
            /\ ReconciledTo(pass.broker_positions, i)]_vars

\* A pass skipped A, nothing was notified for A afterwards, and the next
\* fetched pass found A's tracker open while the broker held nothing: it
\* logged the phantom and reset the tracker.
C34_Witness ==
    /\ pass.kind = "periodic" /\ pass.fetch = "ok" /\ pass.was # None
    /\ "A" \in Val(pass.was).carried /\ "A" \in Val(pass.was).disagreed
    /\ "A" \notin pass.skipped
    /\ LogRecord("WARNING", "A", "phantom_local") \in pass.log
    /\ is_flat(strategies["A"].position)

\* C35: an instrument whose position change was notified while a periodic
\* pass waited for get_positions is skipped by that same pass, and the pass
\* leaves its strategy as it was, whatever the fetched positions say.
C35_ChangeDuringFetchHonoured ==
    [][PeriodicResume =>
        \A i \in trail.during_fetch :
            /\ i \in pass'.skipped
            /\ strategies'[i] = strategies[i]]_vars

\* A's strategy opened a position while the pass waited for the broker, the
\* fetched list did not hold it, and the pass skipped A and left it open.
C35_Witness ==
    /\ pass.kind = "periodic" /\ pass.fetch = "ok" /\ pass.was # None
    /\ "A" \in Val(pass.was).during_fetch /\ "A" \in Val(pass.was).disagreed
    /\ "A" \in pass.skipped
    /\ ~is_flat(strategies["A"].position)
    /\ \A r \in pass.log : r.instrument # "A"

\* C36: a periodic pass whose get_positions fails leaves the recently-changed
\* set as it was, and every instrument that was in the set at a failed fetch
\* is skipped, and its strategy left alone, by the next pass whose fetch
\* succeeds.
C36_FetchFailureKeepsSet ==
    [][/\ (pc = "fetch" /\ pass.kind = "periodic" /\ pass'.fetch = "failed") =>
              recently_changed_instruments' = recently_changed_instruments
       /\ PeriodicResume =>
              /\ trail.failed_with \subseteq pass'.skipped
              /\ \A i \in trail.failed_with : strategies'[i] = strategies[i]]_vars

\* A was in the set when a fetch failed; the next fetched pass disagreed
\* with A's tracker and skipped A, with nothing notified during its fetch.
C36_Witness ==
    /\ pass.kind = "periodic" /\ pass.fetch = "ok" /\ pass.was # None
    /\ "A" \in Val(pass.was).failed_with /\ "A" \in Val(pass.was).disagreed
    /\ Val(pass.was).during_fetch = {}
    /\ "A" \in pass.skipped

====
